---- MODULE Spec2Model ----
(***************************************************************************)
(* A model of the Bag-of-Cells codec of tonweb-deno: BitString, Slice,     *)
(* Cell, the BoC serializer (treeWalk, toBoc) and the BoC deserializer     *)
(* (parseBocHeader, deserializeCellData, deserializeBoc).                  *)
(*                                                                         *)
(* A Uint8Array is a sequence of bytes 0..255 (index i of the source is    *)
(* index i + 1 here).  A thrown exception is the err field of the result   *)
(* of an operation; the state reached when the exception was thrown is     *)
(* kept, as it is in the program.  BN values are integers.                 *)
(***************************************************************************)
EXTENDS Integers, Sequences, FiniteSets, TLC

VARIABLES
  bs,      \* SpecBits: the BitString under construction
  wr,      \* SpecBits: the last write operation on bs and how it ended
  sl,      \* SpecBits: the Slice made of bs (Cell.beginParse)
  rd,      \* SpecBits: the last load operation on sl and what it returned
  tu,      \* SpecBits: the last getTopUppedArray / setTopUppedArray round trip
  hx,      \* SpecBits: what toHex returned
  pcb,     \* SpecBits: "write" until beginParse, then "read"
  heap,    \* the heap of the Cells constructed, heap[1] the one that toBoc is called on
  cnt,     \* how many refs.push, bit writes and writeCell calls were made on heap
  boc,     \* the bytes that toBoc returned, or the bytes given to fromBoc
  out,     \* what fromBoc returned
  inp,     \* SpecDec: what the bytes given to fromBoc were made of
  pc       \* "build", then "boc" when the bytes exist, then "done" after fromBoc

bitVars == <<bs, wr, sl, rd, tu, hx, pcb>>
cellVars == <<heap, cnt, boc, out, inp, pc>>
vars == <<bs, wr, sl, rd, tu, hx, pcb, heap, cnt, boc, out, inp, pc>>

---------------------------------------------------------------------------
(* Bounds of the model *)

\* widths 0..MaxWidth are tried by writeUint, writeInt, loadUint, loadInt
MaxWidth == 3
\* number of writeBit, writeUint and writeInt calls on one BitString
MaxWrites == 1
\* BitStrings of capacity 1..MaxLength are built, and the one of a Cell
MaxLength == 8

\* number of Cells in the heap
MaxCells == 3
\* number of refs.push calls on the Cells of the heap
MaxPushes == 3
\* number of write calls on the bits of the Cells of the heap
MaxData == 1
\* number of writeCell calls
MaxWriteCells == 1
\* a bit is flipped in a BoC of at most MaxFlipBytes bytes
MaxFlipBytes == 20

\* new BitString(1023) of the Cell constructor
CellBits == 1023

---------------------------------------------------------------------------
(* Bytes and bits *)

Pow2(n) == 2 ^ n

\* the sequence s[lo..hi] of the source's s.slice(lo - 1, hi)
Slice0(s, from, to) ==
  LET a == IF from < Len(s) THEN from ELSE Len(s)
      b == IF to < Len(s) THEN to ELSE Len(s)
  IN  IF b <= a THEN <<>> ELSE SubSeq(s, a + 1, b)

\* Math.ceil(n / 8)
CeilDiv8(n) == (n + 7) \div 8

\* value of (byte & (1 << (7 - (n % 8)))) > 0
BitOfByte(byte, n) == (byte \div Pow2(7 - (n % 8))) % 2 = 1

---------------------------------------------------------------------------
(* BitString *)

BitString(length) ==
  [array |-> [i \in 1..CeilDiv8(length) |-> 0], cursor |-> 0, length |-> length]

Ok(b) == [bs |-> b, err |-> FALSE]
Throw(b) == [bs |-> b, err |-> TRUE]

getFreeBits(b) == b.length - b.cursor

\* an index past the end of a Uint8Array reads undefined, and undefined & m is 0
get(b, n) ==
  LET i == (n \div 8) + 1
  IN  IF i \in DOMAIN b.array THEN BitOfByte(b.array[i], n) ELSE FALSE

\* TRUE iff checkRange(n) throws "BitString overflow"
checkRange(b, n) == n > b.length

\* a store past the end of a Uint8Array is ignored
on(b, n) ==
  LET i == (n \div 8) + 1
  IN  IF checkRange(b, n) THEN Throw(b)
      ELSE IF i \in DOMAIN b.array /\ ~BitOfByte(b.array[i], n)
           THEN Ok([b EXCEPT !.array[i] = @ + Pow2(7 - (n % 8))])
           ELSE Ok(b)

off(b, n) ==
  LET i == (n \div 8) + 1
  IN  IF checkRange(b, n) THEN Throw(b)
      ELSE IF i \in DOMAIN b.array /\ BitOfByte(b.array[i], n)
           THEN Ok([b EXCEPT !.array[i] = @ - Pow2(7 - (n % 8))])
           ELSE Ok(b)

writeBit(b, v) ==
  LET r == IF v THEN on(b, b.cursor) ELSE off(b, b.cursor)
  IN  IF r.err THEN r ELSE Ok([r.bs EXCEPT !.cursor = @ + 1])

\* for (i = lo - 1; i < hi; i++) this.writeBit(ba[i]), stopping at the first
\* throw; the loop is split in halves to keep the evaluation shallow
RECURSIVE writeBitArrayFrom(_, _, _, _)
writeBitArrayFrom(b, ba, lo, hi) ==
  IF lo > hi THEN Ok(b)
  ELSE IF lo = hi THEN writeBit(b, ba[lo])
  ELSE LET m == (lo + hi) \div 2
           r == writeBitArrayFrom(b, ba, lo, m)
       IN  IF r.err THEN r ELSE writeBitArrayFrom(r.bs, ba, m + 1, hi)

writeBitArray(b, ba) == writeBitArrayFrom(b, ba, 1, Len(ba))

\* the digits of BN.toString(2) of a non-negative number
RECURSIVE Digits2(_)
Digits2(m) == IF m < 2 THEN <<m>> ELSE Append(Digits2(m \div 2), m % 2)

Abs(n) == IF n < 0 THEN -n ELSE n

\* BN.toString(2, padding): the digits of the magnitude, zeros in front until the
\* length is a multiple of padding, then "-" (written -1 here) in front of a
\* negative number
toString2(n, padding) ==
  LET d == Digits2(Abs(n))
      p == IF padding = 0 THEN 1 ELSE padding
      z == (p - (Len(d) % p)) % p
      padded == [i \in 1..z |-> 0] \o d
  IN  IF n < 0 THEN <<-1>> \o padded ELSE padded

\* writeUint with the digits written last digit first
writeUint_lastDigitFirst(b, number, bitLength) ==
  IF bitLength = 0 THEN Throw(b)
  ELSE IF Len(toString2(number, 1)) > bitLength
       THEN (IF number = 0 THEN Ok(b) ELSE Throw(b))
       ELSE LET s == toString2(number, bitLength)
            IN  writeBitArray(b, [i \in 1..bitLength |-> s[bitLength + 1 - i] = 1])

\* writeUint that writes the low bitLength bits of a number that is too large
writeUint_lowBits(b, number, bitLength) ==
  IF bitLength = 0 THEN Throw(b)
  ELSE writeBitArray(b, [i \in 1..bitLength |-> (number \div Pow2(bitLength - i)) % 2 = 1])

writeUint(b, number, bitLength) ==
  IF bitLength = 0 THEN Throw(b)
  ELSE IF Len(toString2(number, 1)) > bitLength
       THEN (IF number = 0 THEN Ok(b) ELSE Throw(b))
       ELSE LET s == toString2(number, bitLength)
            IN  writeBitArray(b, [i \in 1..bitLength |-> s[i] = 1])

writeInt(b, number, bitLength) ==
  IF bitLength = 0 THEN Throw(b)
  ELSE IF bitLength = 1
       THEN (IF number = -1 THEN writeBit(b, TRUE)
             ELSE IF number = 0 THEN writeBit(b, FALSE)
             ELSE Throw(b))
       ELSE IF number < 0
            THEN LET r == writeBit(b, TRUE)
                     nb == Pow2(bitLength - 1)
                 IN  IF r.err THEN r ELSE writeUint(r.bs, nb + number, bitLength - 1)
            ELSE LET r == writeBit(b, FALSE)
                 IN  IF r.err THEN r ELSE writeUint(r.bs, number, bitLength - 1)

writeUint8(b, ui8) == writeUint(b, ui8, 8)

RECURSIVE writeBytesFrom(_, _, _, _)
writeBytesFrom(b, ui8, lo, hi) ==
  IF lo > hi THEN Ok(b)
  ELSE IF lo = hi THEN writeUint8(b, ui8[lo])
  ELSE LET m == (lo + hi) \div 2
           r == writeBytesFrom(b, ui8, lo, m)
       IN  IF r.err THEN r ELSE writeBytesFrom(r.bs, ui8, m + 1, hi)

writeBytes(b, ui8) == writeBytesFrom(b, ui8, 1, Len(ui8))

\* a BN that a number of TLC cannot hold is the sequence of its hex digits, the
\* highest first and none of them a leading zero: <<0>> is zero

\* the four binary digits of every hex digit
RECURSIVE HexToBinary(_, _)
HexToBinary(hex, k) ==
  IF k > Len(hex) THEN <<>>
  ELSE <<(hex[k] \div 8) % 2, (hex[k] \div 4) % 2, (hex[k] \div 2) % 2, hex[k] % 2>>
       \o HexToBinary(hex, k + 1)

\* the digits without the zeros in front
RECURSIVE StripZeros(_)
StripZeros(d) ==
  IF Len(d) > 1 /\ d[1] = 0 THEN StripZeros(Tail(d)) ELSE d

\* BN.toString(2) of a BN >= 0
toString2BN(hex) == StripZeros(HexToBinary(hex, 1))

\* writeUint of a BN >= 0
writeUintBN(b, hex, bitLength) ==
  IF bitLength = 0 THEN Throw(b)
  ELSE IF Len(toString2BN(hex)) > bitLength
       THEN (IF hex = <<0>> THEN Ok(b) ELSE Throw(b))
       ELSE LET d == toString2BN(hex)
                z == (bitLength - (Len(d) % bitLength)) % bitLength
                str == [i \in 1..z |-> 0] \o d
            IN  writeBitArray(b, [i \in 1..bitLength |-> str[i] = 1])

\* writeGrams that writes the amount in l * 8 bits without l in front
writeGrams_noLength(b, amount) ==
  IF amount = <<0>> THEN writeUint(b, 0, 4)
  ELSE writeUintBN(b, amount, ((Len(amount) + 1) \div 2) * 8)

\* amount.toString(16) is the sequence of the hex digits itself
writeGrams(b, amount) ==
  IF amount = <<0>> THEN writeUint(b, 0, 4)
  ELSE LET l == (Len(amount) + 1) \div 2
           r == writeUint(b, l, 4)
       IN  IF r.err THEN r ELSE writeUintBN(r.bs, amount, l * 8)

\* an Address is [isNull, wc, hashPart]; null is NullAddress
NullAddress == [isNull |-> TRUE, wc |-> 0, hashPart |-> <<>>]

writeAddressStd(r1, r2, address) ==
  IF r1.err THEN r1
  ELSE IF r2.err THEN r2
  ELSE LET r3 == writeInt(r2.bs, address.wc, 8)
       IN  IF r3.err THEN r3 ELSE writeBytes(r3.bs, address.hashPart)

writeAddress(b, address) ==
  IF address.isNull THEN writeUint(b, 0, 2)
  ELSE writeAddressStd(writeUint(b, 2, 2), writeUint(writeUint(b, 2, 2).bs, 0, 1), address)

\* clone() keeps the length (the capacity) of the original
clone(b) == [array |-> b.array, cursor |-> b.cursor, length |-> b.length]

\* the result is [array, err]: ret.writeBit throws when the padding passes
\* the capacity of the clone
getTopUppedArray(b) ==
  LET ret == clone(b)
      tuBits == CeilDiv8(ret.cursor) * 8 - ret.cursor
      r == IF tuBits > 0
           THEN writeBitArray(ret, [i \in 1..tuBits |-> i = 1])
           ELSE Ok(ret)
  IN  [array |-> Slice0(r.bs.array, 0, CeilDiv8(r.bs.cursor)), err |-> r.err]

\* to_hex_array of Utils.ts: the two lower-case hex digits of every byte
HexDigits ==
  <<"0", "1", "2", "3", "4", "5", "6", "7", "8", "9", "a", "b", "c", "d", "e", "f">>

\* bytesToHex: a string is the sequence of its characters
bytesToHex(buffer) ==
  [i \in 1..(2 * Len(buffer)) |->
     IF i % 2 = 1 THEN HexDigits[(buffer[(i + 1) \div 2] \div 16) + 1]
     ELSE HexDigits[(buffer[i \div 2] % 16) + 1]]

\* String.toUpperCase on the characters that a hex string or "_" holds
UpperCaseOf(ch) ==
  CASE ch = "a" -> "A" [] ch = "b" -> "B" [] ch = "c" -> "C"
    [] ch = "d" -> "D" [] ch = "e" -> "E" [] ch = "f" -> "F"
    [] OTHER -> ch

toUpperCase(str) == [i \in 1..Len(str) |-> UpperCaseOf(str[i])]

\* toHex of a BitString whose cursor is a multiple of 4
toHexAligned(b) ==
  LET str == toUpperCase(bytesToHex(Slice0(b.array, 0, CeilDiv8(b.cursor))))
  IN  IF b.cursor % 8 = 0 THEN str ELSE SubSeq(str, 1, Len(str) - 1)

\* the result is [hex, err]: temp.writeBit throws when the padding passes the
\* capacity of the clone
toHex(b) ==
  IF b.cursor % 4 = 0
  THEN [hex |-> toHexAligned(b), err |-> FALSE]
  ELSE LET temp == writeBitArray(clone(b), [i \in 1..(4 - (b.cursor % 4)) |-> i = 1])
       IN  IF temp.err THEN [hex |-> <<>>, err |-> TRUE]
           ELSE [hex |-> Append(toUpperCase(toHexAligned(temp.bs)), "_"), err |-> FALSE]

\* for (c = 0; c < 7; c++) { cursor -= 1; if (get(cursor)) { off(cursor); break } }
RECURSIVE findEndBit(_, _)
findEndBit(b, c) ==
  IF c >= 7 THEN Throw(b)
  ELSE LET b1 == [b EXCEPT !.cursor = @ - 1]
       IN  IF get(b1, b1.cursor) THEN off(b1, b1.cursor) ELSE findEndBit(b1, c + 1)

setTopUppedArray(b, array, fullfilledBytes) ==
  LET b1 == [array |-> array, cursor |-> Len(array) * 8, length |-> Len(array) * 8]
  IN  IF fullfilledBytes \/ b1.length = 0 THEN Ok(b1) ELSE findEndBit(b1, 0)

---------------------------------------------------------------------------
(* Slice *)

Slice(array, length, refs) ==
  [array |-> array, length |-> length, readCursor |-> 0, refs |-> refs, refCursor |-> 0]

\* the result of a load: the slice after it, whether it threw, what it returned
SOk(s, v) == [sl |-> s, err |-> FALSE, ret |-> v]
SThrow(s) == [sl |-> s, err |-> TRUE, ret |-> 0]

\* TRUE iff Slice.checkRange(n) throws "BitString overflow"
sliceCheckRange(s, n) == n > s.length

\* Slice.get, after its checkRange
sliceGet(s, n) ==
  LET i == (n \div 8) + 1
  IN  IF i \in DOMAIN s.array THEN BitOfByte(s.array[i], n) ELSE FALSE

loadBit(s) ==
  IF sliceCheckRange(s, s.readCursor) THEN SThrow(s)
  ELSE SOk([s EXCEPT !.readCursor = @ + 1], sliceGet(s, s.readCursor))

\* bitLength successive loadBit calls, ret the sequence of the bits read; the
\* loop stops at the first throw and is split in halves to keep the
\* evaluation shallow
RECURSIVE loadBitsSeq(_, _)
loadBitsSeq(s, bitLength) ==
  IF bitLength <= 0 THEN SOk(s, <<>>)
  ELSE IF bitLength = 1
       THEN LET r == loadBit(s) IN IF r.err THEN r ELSE SOk(r.sl, <<r.ret>>)
  ELSE LET h == bitLength \div 2
           r1 == loadBitsSeq(s, h)
           r2 == loadBitsSeq(r1.sl, bitLength - h)
       IN  IF r1.err THEN r1
           ELSE IF r2.err THEN r2
           ELSE SOk(r2.sl, r1.ret \o r2.ret)

\* loadBits writes the bits read into a new BitString(bitLength) and returns
\* its array
loadBits(s, bitLength) ==
  LET r == loadBitsSeq(s, bitLength)
  IN  IF r.err THEN r
      ELSE SOk(r.sl, writeBitArray(BitString(bitLength), r.ret).bs.array)

\* new BN(s, 2) of a string of binary digits
RECURSIVE BNbase2(_, _)
BNbase2(bits, n) ==
  IF n = 0 THEN 0
  ELSE 2 * BNbase2(bits, n - 1) + (IF bits[n] THEN 1 ELSE 0)

loadUint(s, bitLength) ==
  IF bitLength < 1 THEN SThrow(s)
  ELSE LET r == loadBitsSeq(s, bitLength)
       IN  IF r.err THEN r ELSE SOk(r.sl, BNbase2(r.ret, Len(r.ret)))

\* loadInt without the sign: the bits read as an unsigned integer
loadInt_unsigned(s, bitLength) == loadUint(s, bitLength)

loadInt(s, bitLength) ==
  IF bitLength < 1 THEN SThrow(s)
  ELSE LET r == loadBit(s)
       IN  IF r.err THEN r
           ELSE IF bitLength = 1 THEN SOk(r.sl, IF r.ret THEN -1 ELSE 0)
           ELSE LET u == loadUint(r.sl, bitLength - 1)
                IN  IF u.err THEN u
                    ELSE IF r.ret THEN SOk(u.sl, u.ret - Pow2(bitLength - 1))
                    ELSE u

\* new Address(wc + ":" + hex): the address of the workchain wc whose hash part
\* has the hex digits hex
Address(wc, hex) == [isNull |-> FALSE, wc |-> wc, hex |-> hex]

\* loadAddress that takes every tag other than 00 for the tag 10
loadAddress_anyTag(s) ==
  LET r == loadUint(s, 2)
  IN  IF r.err THEN r
      ELSE IF r.ret = 0 THEN SOk(r.sl, [isNull |-> TRUE, wc |-> 0, hex |-> <<>>])
      ELSE LET w == loadInt(loadBit(r.sl).sl, 8)
               hashPart == loadBits(w.sl, 256)
           IN  IF w.err THEN w
               ELSE IF hashPart.err THEN hashPart
               ELSE SOk(hashPart.sl, Address(w.ret, bytesToHex(hashPart.ret)))

\* the part of loadAddress after the tag 10: a is what loadBit returned
loadAddressStd(a) ==
  IF a.err THEN a
  ELSE IF a.ret THEN SThrow(a.sl)
  ELSE LET w == loadInt(a.sl, 8)
           hashPart == loadBits(w.sl, 256)
       IN  IF w.err THEN w
           ELSE IF hashPart.err THEN hashPart
           ELSE SOk(hashPart.sl, Address(w.ret, bytesToHex(hashPart.ret)))

loadAddress(s) ==
  LET r == loadUint(s, 2)
  IN  IF r.err THEN r
      ELSE IF r.ret = 0 THEN SOk(r.sl, [isNull |-> TRUE, wc |-> 0, hex |-> <<>>])
      ELSE IF r.ret # 2 THEN SThrow(r.sl)
      ELSE loadAddressStd(loadBit(r.sl))

\* loadRef that leaves refCursor where it was
loadRef_sameChild(s) ==
  IF s.refCursor >= 4 THEN SThrow(s)
  ELSE SOk(s, IF s.refCursor < Len(s.refs) THEN <<s.refs[s.refCursor + 1]>> ELSE <<>>)

\* refs.at(refCursor) past the end of refs is undefined, written <<>> here
loadRef(s) ==
  IF s.refCursor >= 4 THEN SThrow(s)
  ELSE SOk([s EXCEPT !.refCursor = @ + 1],
           IF s.refCursor < Len(s.refs) THEN <<s.refs[s.refCursor + 1]>> ELSE <<>>)

-------------------------------------------------------------------------------------------------------------------------------------------------
(* Utils *)

concatBytes(a, b) == a \o b

\* a 32-bit number of the CRC computation is the pair of its halves,
\* <<the high 16 bits, the low 16 bits>>

\* a ^ b of two numbers of 4 bits
XorNibble(a, b) ==
    ((a + b) % 2)
  + 2 * (((a \div 2) + (b \div 2)) % 2)
  + 4 * (((a \div 4) + (b \div 4)) % 2)
  + 8 * (((a \div 8) + (b \div 8)) % 2)

\* XorNibble as a table: a ^ b is XorTable[16 * a + b + 1]
RECURSIVE XorTableFrom(_, _)
XorTableFrom(lo, hi) ==
  IF lo = hi THEN <<XorNibble(lo \div 16, lo % 16)>>
  ELSE XorTableFrom(lo, (lo + hi) \div 2) \o XorTableFrom(((lo + hi) \div 2) + 1, hi)
XorTable == XorTableFrom(0, 255)

\* a ^ b of two numbers of 16 bits, nibble by nibble
XorBits(a, b) ==
    XorTable[16 * (a % 16) + (b % 16) + 1]
  + 16 * XorTable[16 * ((a \div 16) % 16) + ((b \div 16) % 16) + 1]
  + 256 * XorTable[16 * ((a \div 256) % 16) + ((b \div 256) % 16) + 1]
  + 4096 * XorTable[16 * (a \div 4096) + (b \div 4096) + 1]
Xor32(a, b) == <<XorBits(a[1], b[1]), XorBits(a[2], b[2])>>
ShiftRight1(a) == <<a[1] \div 2, (a[2] \div 2) + (a[1] % 2) * Pow2(15)>>
Ones32 == <<Pow2(16) - 1, Pow2(16) - 1>>
\* const POLY = 0x82f63b78
POLY == <<((8 * 16 + 2) * 16 + 15) * 16 + 6, ((3 * 16 + 11) * 16 + 7) * 16 + 8>>

\* crc = crc & 1 ? (crc >>> 1) ^ POLY : crc >>> 1, k times
RECURSIVE crcShift(_, _)
crcShift(reg, k) ==
  IF k = 0 THEN reg
  ELSE crcShift(IF reg[2] % 2 = 1 THEN Xor32(ShiftRight1(reg), POLY)
                ELSE ShiftRight1(reg),
                k - 1)

\* the loop of _crc32c over data[lo..hi], split in halves
RECURSIVE crcBytes(_, _, _, _)
crcBytes(acc, data, lo, hi) ==
  IF lo > hi THEN acc
  ELSE IF lo = hi THEN crcShift(Xor32(acc, <<0, data[lo]>>), 8)
  ELSE LET m == (lo + hi) \div 2
           r == crcBytes(acc, data, lo, m)
       IN  IF r[1] >= 0 THEN crcBytes(r, data, m + 1, hi) ELSE r

\* _crc32c(crc, bytes)
crc32cInt(crc, bytes) == Xor32(crcBytes(Xor32(crc, Ones32), bytes, 1, Len(bytes)), Ones32)

\* a checksum that does not depend on the bytes
crc32c_constant(bytes) == <<0, 0, 0, 0>>

\* setUint32(0, int_crc, false) writes the highest byte first, reverse() turns
\* the four bytes round: the lowest byte comes first
crc32c(bytes) ==
  LET c == crc32cInt(<<0, 0>>, bytes)
  IN  <<c[2] % 256, c[2] \div 256, c[1] % 256, c[1] \div 256>>

\* hexToBytes of a hexadecimal string, the string as the sequence of its digits
hexToBytes(digits) == [i \in 1..(Len(digits) \div 2) |-> 16 * digits[2 * i - 1] + digits[2 * i]]

\* Number.toString(16) as the sequence of its digits
RECURSIVE toString16(_)
toString16(n) == IF n < 16 THEN <<n>> ELSE Append(toString16(n \div 16), n % 16)

\* the SHA-256 digest of crypto.subtle: two digests are equal only when the
\* bytes digested are
sha256(repr) == [digest |-> repr]

---------------------------------------------------------------------------
(* Cell.  The cells live in a heap h, a sequence of Cell records; a         *)
(* reference to a Cell is its index in h, and 0 is the value undefined.    *)

reachBocMagicPrefix == hexToBytes(<<11, 5, 14, 14, 9, 12, 7, 2>>)
leanBocMagicPrefix == hexToBytes(<<6, 8, 15, 15, 6, 5, 15, 3>>)
leanBocMagicPrefixCRC == hexToBytes(<<10, 12, 12, 3, 10, 7, 2, 8>>)

Cell == [bits |-> BitString(CellBits), refs |-> <<>>, isExotic |-> FALSE]

Max(a, b) == IF a > b THEN a ELSE b

RECURSIVE getMaxLevel(_, _)
getMaxLevel(h, c) ==
  LET refs == h[c].refs
      level[k \in 0..Len(refs)] ==
        IF k = 0 THEN 0 ELSE Max(level[k - 1], getMaxLevel(h, refs[k]))
  IN  level[Len(refs)]

isExplicitlyStoredHashes(h, c) == 0

RECURSIVE getMaxDepth(_, _)
getMaxDepth(h, c) ==
  LET refs == h[c].refs
      depth[k \in 0..Len(refs)] ==
        IF k = 0 THEN 0 ELSE Max(depth[k - 1], getMaxDepth(h, refs[k]))
  IN  IF Len(refs) > 0 THEN depth[Len(refs)] + 1 ELSE 0

getMaxDepthAsArray(h, c) ==
  LET maxDepth == getMaxDepth(h, c)
  IN  <<(maxDepth \div 256) % 256, maxDepth % 256>>

\* d1[0] = ... stores the number modulo 256
getRefsDescriptor(h, c) ==
  <<(Len(h[c].refs) + (IF h[c].isExotic THEN 8 ELSE 0) + getMaxLevel(h, c) * 32) % 256>>

getBitsDescriptor(h, c) ==
  <<(CeilDiv8(h[c].bits.cursor) + (h[c].bits.cursor \div 8)) % 256>>

getDataWithDescriptors(h, c) ==
  concatBytes(concatBytes(getRefsDescriptor(h, c), getBitsDescriptor(h, c)),
              getTopUppedArray(h[c].bits).array)

\* getRepr is the concatenation of the three parts; they are kept apart here,
\* the digests of the children being values and not bytes
RECURSIVE hash(_, _)
getRepr(h, c) ==
  LET refs == h[c].refs
  IN  [data |-> getDataWithDescriptors(h, c),
       depths |-> [k \in 1..Len(refs) |-> getMaxDepthAsArray(h, refs[k])],
       hashes |-> [k \in 1..Len(refs) |-> hash(h, refs[k])]]

hash(h, c) == sha256(getRepr(h, c))

\* anotherCell.bits written bit by bit (writeBitString), then the refs
writeCell(cell, anotherCell) ==
  LET ab == anotherCell.bits
      r == writeBitArray(cell.bits, [i \in 1..ab.cursor |-> get(ab, i - 1)])
  IN  [cell |-> IF r.err THEN [cell EXCEPT !.bits = r.bs]
                ELSE [cell EXCEPT !.bits = r.bs, !.refs = @ \o anotherCell.refs],
       err |-> r.err]

---------------------------------------------------------------------------
(* The BoC serializer.  topologicalOrderArray is a sequence of pairs        *)
(* <<hash, cell>>, indexHashmap a function from hashes to indices of the   *)
(* source (the first index is 0); the two travel together as [T, I, log],  *)
(* where log keeps what the two were after every append of treeWalk and    *)
(* at the end of every call of moveToTheEnd.                               *)

Min(a, b) == IF a < b THEN a ELSE b

\* the key of indexHashmap for a hash: a text that is one for each hash
uint8ArrayToText(bytes) == [text |-> bytes]

\* indexHashmap[key] = value
SetIndex(I, key, value) == (key :> value) @@ I

\* topologicalOrderArray.splice(targetIndex, 1) followed by push of what was
\* taken out
SpliceToEnd(T, targetIndex) ==
  LET data == T[targetIndex + 1]
  IN  SubSeq(T, 1, targetIndex) \o SubSeq(T, targetIndex + 2, Len(T)) \o <<data>>

\* st with T and I as they are now added to its log
Logged(st) == [st EXCEPT !.log = Append(@, [T |-> st.T, I |-> st.I])]

RECURSIVE moveToTheEnd(_, _, _)
RECURSIVE moveToTheEndRefs(_, _, _, _)

\* the calls of moveToTheEnd on refs[k..] of the moved cell
moveToTheEndRefs(h, st, refs, k) ==
  IF k > Len(refs) THEN st
  ELSE moveToTheEndRefs(h, moveToTheEnd(h, st, hash(h, refs[k])), refs, k + 1)

\* moveToTheEnd that leaves the indices after the target as they were
moveToTheEnd_noShift(h, st, target) ==
  LET targetString == uint8ArrayToText(target)
      targetIndex == st.I[targetString]
      data == st.T[targetIndex + 1]
      moved == [st EXCEPT !.T = SpliceToEnd(st.T, targetIndex),
                          !.I = SetIndex(st.I, targetString, Len(st.T) - 1)]
  IN  Logged(moveToTheEndRefs(h, moved, h[data[2]].refs, 1))

moveToTheEnd(h, st, target) ==
  LET targetString == uint8ArrayToText(target)
      targetIndex == st.I[targetString]
      shifted == [k \in DOMAIN st.I |->
                    IF st.I[k] > targetIndex THEN st.I[k] - 1 ELSE st.I[k]]
      data == st.T[targetIndex + 1]
      moved == [st EXCEPT !.T = SpliceToEnd(st.T, targetIndex),
                          !.I = SetIndex(shifted, targetString, Len(st.T) - 1)]
  IN  Logged(moveToTheEndRefs(h, moved, h[data[2]].refs, 1))

RECURSIVE treeWalk(_, _, _, _)
RECURSIVE treeWalkRefs(_, _, _, _, _)

\* the loop of treeWalk taking the refs from the last to the first
treeWalkRefs_lastFirst(h, st, refs, k, cellHash) ==
  IF k > Len(refs) THEN st
  ELSE treeWalkRefs(h, treeWalk(h, refs[Len(refs) + 1 - k], st, <<cellHash>>),
                    refs, k + 1, cellHash)

\* the loop of treeWalk over refs[k..] of the cell whose hash is cellHash
treeWalkRefs(h, st, refs, k, cellHash) ==
  IF k > Len(refs) THEN st
  ELSE treeWalkRefs(h, treeWalk(h, refs[k], st, <<cellHash>>), refs, k + 1, cellHash)

\* treeWalk without the relocation of a cell that was met before its parent
treeWalk_noMove(h, cell, st, parentHash) ==
  LET cellHash == hash(h, cell)
      cellHashString == uint8ArrayToText(cellHash)
  IN  IF cellHashString \in DOMAIN st.I
      THEN st
      ELSE treeWalkRefs(h,
             Logged([st EXCEPT !.T = Append(st.T, <<cellHash, cell>>),
                               !.I = SetIndex(st.I, cellHashString, Len(st.T))]),
             h[cell].refs, 1, cellHash)

\* treeWalk that appends a cell every time it meets it
treeWalk_noDedup(h, cell, st, parentHash) ==
  LET cellHash == hash(h, cell)
      cellHashString == uint8ArrayToText(cellHash)
  IN  treeWalkRefs(h,
        Logged([st EXCEPT !.T = Append(st.T, <<cellHash, cell>>),
                          !.I = SetIndex(st.I, cellHashString, Len(st.T))]),
        h[cell].refs, 1, cellHash)

\* parentHash is <<>> for null and <<hash>> for a hash
treeWalk(h, cell, st, parentHash) ==
  LET cellHash == hash(h, cell)
      cellHashString == uint8ArrayToText(cellHash)
  IN  IF cellHashString \in DOMAIN st.I
      THEN IF /\ parentHash # <<>>
              /\ st.I[uint8ArrayToText(parentHash[1])] > st.I[cellHashString]
           THEN moveToTheEnd(h, st, cellHash)
           ELSE st
      ELSE treeWalkRefs(h,
             Logged([st EXCEPT !.T = Append(st.T, <<cellHash, cell>>),
                               !.I = SetIndex(st.I, cellHashString, Len(st.T))]),
             h[cell].refs, 1, cellHash)

\* Cell.treeWalk() that returns the order from its end, the root last
cellTreeWalk_rootLast(h, cell) ==
  LET st == treeWalk(h, cell, [T |-> <<>>, I |-> <<>>, log |-> <<>>], <<>>)
  IN  [st EXCEPT !.T = [i \in 1..Len(st.T) |-> st.T[Len(st.T) + 1 - i]],
                 !.I = [k \in DOMAIN st.I |-> Len(st.T) - 1 - st.I[k]]]

\* Cell.treeWalk()
cellTreeWalk(h, cell) == treeWalk(h, cell, [T |-> <<>>, I |-> <<>>, log |-> <<>>], <<>>)

\* refIndexInt.toString(16), a "0" in front of an odd number of digits, hexToBytes
refIndexBytes(refIndexInt) ==
  LET refIndexHex == toString16(refIndexInt)
  IN  hexToBytes(IF Len(refIndexHex) % 2 = 1 THEN <<0>> \o refIndexHex ELSE refIndexHex)

RECURSIVE serializeRefs(_, _, _, _)
serializeRefs(h, refs, k, cellsIndex) ==
  IF k > Len(refs) THEN <<>>
  ELSE concatBytes(refIndexBytes(cellsIndex[uint8ArrayToText(hash(h, refs[k]))]),
                   serializeRefs(h, refs, k + 1, cellsIndex))

serializeForBoc(h, cell, cellsIndex) ==
  concatBytes(getDataWithDescriptors(h, cell), serializeRefs(h, h[cell].refs, 1, cellsIndex))

bocSerializationSize(h, cell, cellsIndex) == Len(serializeForBoc(h, cell, cellsIndex))

\* a write of toBoc on the serialization: <<the method, its arguments>>
writeOne(b, w) ==
  CASE w[1] = "writeBytes" -> writeBytes(b, w[2])
    [] w[1] = "writeBitArray" -> writeBitArray(b, w[2])
    [] w[1] = "writeUint" -> writeUint(b, w[2], w[3])
    [] w[1] = "writeUint8" -> writeUint8(b, w[2])

\* the writes ws[lo..hi] in their order, until one throws; the list is split
\* in halves to keep the evaluation shallow
RECURSIVE writeAllFrom(_, _, _, _)
writeAllFrom(r, ws, lo, hi) ==
  IF lo > hi \/ r.err THEN r
  ELSE IF lo = hi THEN writeOne(r.bs, ws[lo])
  ELSE writeAllFrom(writeAllFrom(r, ws, lo, (lo + hi) \div 2), ws, (lo + hi) \div 2 + 1, hi)

\* the writes ws[k..] in their order, until one throws
writeAll(r, ws, k) == writeAllFrom(r, ws, k, Len(ws))

\* the sum of sizes[lo..hi], split in halves to keep the evaluation shallow
RECURSIVE sumSizes(_, _, _)
sumSizes(sizes, lo, hi) ==
  IF lo > hi THEN 0
  ELSE IF lo = hi THEN sizes[lo]
  ELSE sumSizes(sizes, lo, (lo + hi) \div 2) + sumSizes(sizes, (lo + hi) \div 2 + 1, hi)

\* full_size before each cell of sizes[k..] and after the last of them
sizeIndexOf(sizes, k, full_size) ==
  [i \in 1..(Len(sizes) - k + 2) |-> full_size + sumSizes(sizes, k, k + i - 2)]

\* sizeIndex of toBoc with full_size after it: the offsets of the cells of
\* topologicalOrder[k..], the first of them at offset full_size
sizeIndexFrom(h, topologicalOrder, cellsIndex, k, full_size) ==
  sizeIndexOf([j \in 1..Len(topologicalOrder) |->
                 bocSerializationSize(h, topologicalOrder[j][2], cellsIndex)],
              k, full_size)

\* the end of toBoc: getTopUppedArray of the serialization and the CRC
toBocArray(tuArr, hash_crc32) ==
  IF tuArr.err THEN [bytes |-> <<>>, err |-> TRUE]
  ELSE [bytes |-> IF hash_crc32 THEN concatBytes(tuArr.array, crc32c(tuArr.array))
                  ELSE tuArr.array,
        err |-> FALSE]

toBocWritten(r, hash_crc32) ==
  IF r.err THEN [bytes |-> <<>>, err |-> TRUE]
  ELSE toBocArray(getTopUppedArray(r.bs), hash_crc32)

\* toBoc after its loop over topologicalOrder that fills sizeIndex; full_size
\* is the element after the last of sizeIndex here
toBocSized(h, allcells, sizeIndex, has_idx, hash_crc32, has_cache_bits, flags) ==
  LET topologicalOrder == allcells.T
      cellsIndex == allcells.I
      cells_num == Len(topologicalOrder)
      s_bytes == Min(CeilDiv8(Len(Digits2(cells_num))), 1)
      full_size == sizeIndex[cells_num + 1]
      offset_bytes == Max(CeilDiv8(Len(Digits2(full_size))), 1)
      serialization == BitString((CellBits + 32 * 4 + 32 * 3) * cells_num)
      writes ==
        << <<"writeBytes", reachBocMagicPrefix>>,
           <<"writeBitArray", <<has_idx, hash_crc32, has_cache_bits>> >>,
           <<"writeUint", flags, 2>>,
           <<"writeUint", s_bytes, 3>>,
           <<"writeUint8", offset_bytes>>,
           <<"writeUint", cells_num, s_bytes * 8>>,
           <<"writeUint", 1, s_bytes * 8>>,
           <<"writeUint", 0, s_bytes * 8>>,
           <<"writeUint", full_size, offset_bytes * 8>>,
           <<"writeUint", 0, s_bytes * 8>> >>
        \o (IF has_idx
            THEN [index \in 1..cells_num |-> <<"writeUint", sizeIndex[index], offset_bytes * 8>>]
            ELSE <<>>)
        \o [k \in 1..cells_num |->
              <<"writeBytes", serializeForBoc(h, topologicalOrder[k][2], cellsIndex)>>]
  IN  toBocWritten(writeAll(Ok(serialization), writes, 1), hash_crc32)

\* toBoc after treeWalk
toBocWalked(h, allcells, has_idx, hash_crc32, has_cache_bits, flags) ==
  toBocSized(h, allcells, sizeIndexFrom(h, allcells.T, allcells.I, 1, 0),
             has_idx, hash_crc32, has_cache_bits, flags)

\* the result is [bytes, err]
toBoc(h, cell, has_idx, hash_crc32, has_cache_bits, flags) ==
  toBocWalked(h, cellTreeWalk(h, cell), has_idx, hash_crc32, has_cache_bits, flags)

---------------------------------------------------------------------------
(* The BoC deserializer.  A number read from the bytes is an integer, NaN   *)
(* when a byte past the end was added to it, and Huge when it is Huge or   *)
(* more: such a number is only compared with lengths and indices, all of   *)
(* them below Huge.                                                        *)

NaN == -1
Huge == Pow2(22)

Sat(x) == IF x > Huge THEN Huge ELSE x
\* a * b, one of the two a byte
Times(a, b) == IF a = NaN \/ b = NaN THEN NaN ELSE Sat(a * b)
\* a < b of the source: false when one of the two is NaN
Less(a, b) == a # NaN /\ b # NaN /\ a < b
\* the integer that Uint8Array.slice makes of its argument
ToIndex(x) == IF x = NaN THEN 0 ELSE x

\* s.slice(from)
SliceFrom(s, from) == Slice0(s, ToIndex(from), Len(s))

compareBytes(a, b) == a = b

RECURSIVE readBytesLoop(_, _, _, _)
readBytesLoop(res, c, n, ui8array) ==
  IF c >= n \/ res = NaN THEN res
  ELSE readBytesLoop(IF c + 1 > Len(ui8array) THEN NaN ELSE Sat(res * 256 + ui8array[c + 1]),
                     c + 1, n, ui8array)

readNBytesUIntFromArray(n, ui8array) == readBytesLoop(0, 0, n, ui8array)

\* byte & mask, mask a power of two
BitAnd(byte, mask) == ((byte \div mask) % 2) * mask

\* root_list of parseBocHeader: roots_num numbers of size_bytes bytes
RECURSIVE readRootList(_, _, _, _)
readRootList(c, roots_num, size_bytes, serializedBoc) ==
  IF ~Less(c, roots_num) THEN <<>>
  ELSE <<readNBytesUIntFromArray(size_bytes, serializedBoc)>> \o
       readRootList(c + 1, roots_num, size_bytes, SliceFrom(serializedBoc, size_bytes))

HeaderThrow == [err |-> TRUE]

\* the header after the prefix and the byte that follows it; rest is
\* serializedBoc as the source slices it on its way
Header(rest, has_idx, hash_crc32, has_cache_bits, flags, size_bytes) ==
  [err |-> FALSE, rest |-> rest, has_idx |-> has_idx, hash_crc32 |-> hash_crc32,
   has_cache_bits |-> has_cache_bits, flags |-> flags, size_bytes |-> size_bytes,
   off_bytes |-> 0, cells_num |-> 0, roots_num |-> 0, absent_num |-> 0,
   tot_cells_size |-> 0, root_list |-> <<>>, cells_data |-> <<>>]

\* parsePrefix that knows the prefix B5EE9C72 only
parsePrefix_reachOnly(prefix, flags_byte, rest) ==
  IF compareBytes(prefix, reachBocMagicPrefix)
  THEN Header(rest, BitAnd(flags_byte, 128), BitAnd(flags_byte, 64), BitAnd(flags_byte, 32),
              BitAnd(flags_byte, 16) * 2 + BitAnd(flags_byte, 8), flags_byte % 8)
  ELSE HeaderThrow

\* the prefix is compared with the three magic prefixes
parsePrefix(prefix, flags_byte, rest) ==
  IF compareBytes(prefix, reachBocMagicPrefix)
  THEN Header(rest, BitAnd(flags_byte, 128), BitAnd(flags_byte, 64), BitAnd(flags_byte, 32),
              BitAnd(flags_byte, 16) * 2 + BitAnd(flags_byte, 8), flags_byte % 8)
  ELSE IF compareBytes(prefix, leanBocMagicPrefix)
  THEN Header(rest, 1, 0, 0, 0, flags_byte)
  ELSE IF compareBytes(prefix, leanBocMagicPrefixCRC)
  THEN Header(rest, 1, 1, 0, 0, flags_byte)
  ELSE HeaderThrow

\* offset_bytes, cells_num, roots_num, absent_num and tot_cells_size
parseCounters(p) ==
  IF p.err THEN p
  ELSE IF Len(p.rest) < 1 + 5 * p.size_bytes THEN HeaderThrow
  ELSE [p EXCEPT
          !.off_bytes = p.rest[1],
          !.cells_num = readNBytesUIntFromArray(p.size_bytes, SliceFrom(p.rest, 1)),
          !.roots_num = readNBytesUIntFromArray(p.size_bytes, SliceFrom(p.rest, 1 + p.size_bytes)),
          !.absent_num = readNBytesUIntFromArray(p.size_bytes, SliceFrom(p.rest, 1 + 2 * p.size_bytes)),
          !.tot_cells_size = readNBytesUIntFromArray(p.rest[1], SliceFrom(p.rest, 1 + 3 * p.size_bytes)),
          !.rest = SliceFrom(p.rest, 1 + 3 * p.size_bytes + p.rest[1])]

parseRootList(p) ==
  IF p.err THEN p
  ELSE IF Less(Len(p.rest), Times(p.roots_num, p.size_bytes)) THEN HeaderThrow
  ELSE [p EXCEPT
          !.root_list = readRootList(0, p.roots_num, p.size_bytes, p.rest),
          !.rest = SliceFrom(p.rest, Times(p.roots_num, p.size_bytes))]

\* the index is read and not used by deserializeBoc
parseIndex(p) ==
  IF p.err \/ p.has_idx = 0 THEN p
  ELSE IF Less(Len(p.rest), Times(p.off_bytes, p.cells_num)) THEN HeaderThrow
  ELSE [p EXCEPT !.rest = SliceFrom(p.rest, Times(p.off_bytes, p.cells_num))]

parseCellsData(p) ==
  IF p.err THEN p
  ELSE IF Less(Len(p.rest), p.tot_cells_size) THEN HeaderThrow
  ELSE [p EXCEPT
          !.cells_data = Slice0(p.rest, 0, ToIndex(p.tot_cells_size)),
          !.rest = SliceFrom(p.rest, p.tot_cells_size)]

parseCrc(p, inputData) ==
  IF p.err \/ p.hash_crc32 = 0 THEN p
  ELSE IF Len(p.rest) < 4 THEN HeaderThrow
  ELSE IF ~compareBytes(crc32c(Slice0(inputData, 0, Len(inputData) - 4)), Slice0(p.rest, 0, 4))
       THEN HeaderThrow
  ELSE [p EXCEPT !.rest = SliceFrom(p.rest, 4)]

parseEnd(p) ==
  IF p.err THEN p
  ELSE IF Len(p.rest) # 0 THEN HeaderThrow
  ELSE p

\* the result is the header with err FALSE, or [err |-> TRUE] for a throw
parseBocHeader(serializedBoc) ==
  IF Len(serializedBoc) < 4 + 1 THEN HeaderThrow
  ELSE parseEnd(parseCrc(parseCellsData(parseIndex(parseRootList(parseCounters(
         parsePrefix(Slice0(serializedBoc, 0, 4), serializedBoc[5], SliceFrom(serializedBoc, 5)))))),
         serializedBoc))

\* the loop of deserializeCellData that reads refNum reference indices
RECURSIVE readRefs(_, _, _, _)
readRefs(r, refNum, referenceIndexSize, cellData) ==
  IF r >= refNum THEN <<>>
  ELSE <<readNBytesUIntFromArray(referenceIndexSize, cellData)>> \o
       readRefs(r + 1, refNum, referenceIndexSize, SliceFrom(cellData, referenceIndexSize))

\* the result is [cell, residue, err]; the refs of the cell are the numbers
\* read, not yet cells
deserializeCellData(cellData, referenceIndexSize) ==
  IF Len(cellData) < 2 THEN [err |-> TRUE]
  ELSE
  LET d1 == cellData[1]
      d2 == cellData[2]
      c0 == SliceFrom(cellData, 2)
      refNum == d1 % 8
      dataBytesize == (d2 + 1) \div 2
      fullfilledBytes == d2 % 2 = 0
      bits == setTopUppedArray(Cell.bits, Slice0(c0, 0, dataBytesize), fullfilledBytes)
      c1 == SliceFrom(c0, dataBytesize)
  IN  IF Len(c0) < dataBytesize + referenceIndexSize * refNum THEN [err |-> TRUE]
      ELSE IF bits.err THEN [err |-> TRUE]
      ELSE [err |-> FALSE,
            cell |-> [bits |-> bits.bs,
                      refs |-> readRefs(0, refNum, referenceIndexSize, c1),
                      isExotic |-> BitAnd(d1, 8) # 0],
            residue |-> SliceFrom(c1, referenceIndexSize * refNum)]

\* the first loop of deserializeBoc: [cells_array, err]
RECURSIVE readCells(_, _, _, _)
readCells(ci, cells_num, cells_data, size_bytes) ==
  IF ci >= cells_num THEN [cells_array |-> <<>>, err |-> FALSE]
  ELSE LET dd == deserializeCellData(cells_data, size_bytes)
       IN  IF dd.err THEN [cells_array |-> <<>>, err |-> TRUE]
           ELSE LET rest == readCells(ci + 1, cells_num, dd.residue, size_bytes)
                IN  [cells_array |-> <<dd.cell>> \o rest.cells_array, err |-> rest.err]

\* cells_array[r] as a reference into the heap of the decoded cells: the
\* place of the cell in the heap, 0 for undefined
ArrayRef(cells_array, r) == IF r < Len(cells_array) THEN r + 1 ELSE 0

\* if (r < ci) throw, in the second loop of deserializeBoc
refsBroken(cells_array) ==
  \E ci \in 0..(Len(cells_array) - 1) :
    \E ri \in 1..Len(cells_array[ci + 1].refs) : cells_array[ci + 1].refs[ri] < ci

BocThrow == [err |-> TRUE, cells |-> <<>>, roots |-> <<>>]

\* the second loop of deserializeBoc and the root cells
resolveRefs(root_list, read) ==
  IF read.err \/ refsBroken(read.cells_array) THEN BocThrow
  ELSE [err |-> FALSE,
        cells |-> [ci \in 1..Len(read.cells_array) |->
                     [read.cells_array[ci] EXCEPT
                        !.refs = [ri \in 1..Len(@) |-> ArrayRef(read.cells_array, @[ri])]]],
        roots |-> [k \in 1..Len(root_list) |-> ArrayRef(read.cells_array, root_list[k])]]

\* deserializeBoc after parseBocHeader
deserializeCells(header) ==
  IF header.err THEN BocThrow
  ELSE resolveRefs(header.root_list,
                   readCells(0, header.cells_num, header.cells_data, header.size_bytes))

\* the result is [cells, roots, err]: the heap of the decoded cells with the
\* references resolved and the root cells as references into it
deserializeBoc(serializedBoc) == deserializeCells(parseBocHeader(serializedBoc))

fromBoc(serializedBoc) == deserializeBoc(serializedBoc)

\* Cell.hash returns: it throws on a reference that is undefined and does
\* not end on a cycle; n bounds the length of a path
RECURSIVE hashReturns(_, _, _)
hashReturns(h, c, n) ==
  /\ n > 0
  /\ c # 0
  /\ \A k \in 1..Len(h[c].refs) : hashReturns(h, h[c].refs[k], n - 1)

---------------------------------------------------------------------------
(* SpecBits: one BitString, written by its public writers, then top-upped  *)
(* or read back through a Slice                                            *)

Lengths == (1..MaxLength) \cup {CellBits}
Widths == 0..MaxWidth
\* the numbers tried with width w: every number that fits w bits as an
\* unsigned or as a signed integer, and the nearest ones that do not
UintNumbers(w) == (-1)..Pow2(w)
IntNumbers(w) == (-(Pow2(w) \div 2) - 1)..((Pow2(w) + 1) \div 2)
\* what writeBitArray and writeBytes put in front of the other writes
BitArrays ==
  {[i \in 1..n |-> i % 3 = 0] :
     n \in {5, CellBits - MaxWidth, CellBits - MaxWidth + 1, CellBits}}
\* the amounts of writeGrams: 0, 1, 255, 256, the greatest amount of 15 bytes
\* and the least amount of 16 bytes
GramAmounts ==
  <<(<<0>>), <<1>>, <<15, 15>>, <<1, 0, 0>>, [i \in 1..30 |-> 15],
    [i \in 1..31 |-> IF i = 1 THEN 1 ELSE 0]>>
\* the addresses of writeAddress: null, and workchains 0, -1 and -128 with a
\* hash part of 32 bytes
Addresses ==
  <<NullAddress,
    [isNull |-> FALSE, wc |-> 0, hashPart |-> [i \in 1..32 |-> 8 * i - 1]],
    [isNull |-> FALSE, wc |-> -1, hashPart |-> [i \in 1..32 |-> 255 - 5 * i]],
    [isNull |-> FALSE, wc |-> -128, hashPart |-> [i \in 1..32 |-> 0]]>>
ByteArrays == {<<165>>, [i \in 1..CeilDiv8(CellBits) |-> 255]}

NoWrite == [op |-> "none", n |-> 0, w |-> 0, pos |-> 0, err |-> FALSE, count |-> 0]
NoRead == [op |-> "none", w |-> 0, pos |-> 0, err |-> FALSE, ret |-> 0]
NoTopUp == [done |-> FALSE, err |-> FALSE, out |-> BitString(0)]
NoHex == [done |-> FALSE, err |-> FALSE, hex |-> <<>>]
NoCount == [pushes |-> 0, data |-> 0, writeCells |-> 0]
\* the bytes that toBoc returned, with the arguments of the call
Boc(r, has_idx, hash_crc32) ==
  [bytes |-> r.bytes, err |-> r.err, has_idx |-> has_idx, hash_crc32 |-> hash_crc32,
   flipped |-> FALSE]
NoBoc == Boc([bytes |-> <<>>, err |-> FALSE], FALSE, FALSE)
NoOut == [err |-> FALSE, cells |-> <<>>, roots |-> <<>>]
NoInput == [magic |-> <<>>, size_bytes |-> 0, off_bytes |-> 0, has_idx |-> FALSE,
            hash_crc32 |-> FALSE, cells |-> <<>>, roots |-> <<>>, cut |-> 0]

InitBits ==
  /\ \E length \in Lengths : bs = BitString(length)
  /\ wr = NoWrite
  /\ sl = Slice(<<>>, 0, <<>>)
  /\ rd = NoRead
  /\ tu = NoTopUp
  /\ hx = NoHex
  /\ pcb = "write"
  /\ heap = <<>> /\ cnt = NoCount /\ boc = NoBoc /\ out = NoOut /\ inp = NoInput
  /\ pc = "bits"

Written(op, n, w, r, counted) ==
  /\ bs' = r.bs
  /\ wr' = [op |-> op, n |-> n, w |-> w, pos |-> bs.cursor, err |-> r.err,
            count |-> wr.count + counted]
  /\ UNCHANGED <<sl, rd, tu, hx, pcb>>
  /\ UNCHANGED cellVars

\* writeBitArray and writeBytes are called on an empty BitString
CanFill == pcb = "write" /\ bs.cursor = 0 /\ wr.count = 0 /\ wr.op = "none"

WriteBitArray == CanFill /\ \E ba \in BitArrays :
  Written("writeBitArray", 0, Len(ba), writeBitArray(bs, ba), 0)

WriteBytes == CanFill /\ \E ui8 \in ByteArrays :
  Written("writeBytes", 0, 8 * Len(ui8), writeBytes(bs, ui8), 0)

CanWrite == pcb = "write" /\ wr.count < MaxWrites

WriteBit == CanWrite /\ \E v \in BOOLEAN :
  Written("writeBit", IF v THEN 1 ELSE 0, 1, writeBit(bs, v), 1)

WriteUint == CanWrite /\ \E w \in Widths : \E n \in UintNumbers(w) :
  Written("writeUint", n, w, writeUint(bs, n, w), 1)

WriteInt == CanWrite /\ \E w \in Widths : \E n \in IntNumbers(w) :
  Written("writeInt", n, w, writeInt(bs, n, w), 1)

\* wr.n is the place of the amount in GramAmounts
WriteGrams == CanWrite /\ \E k \in 1..Len(GramAmounts) :
  Written("writeGrams", k, 0, writeGrams(bs, GramAmounts[k]), 1)

\* wr.n is the place of the address in Addresses
WriteAddress == CanWrite /\ \E k \in 1..Len(Addresses) :
  Written("writeAddress", k, 0, writeAddress(bs, Addresses[k]), 1)

\* setTopUppedArray(getTopUppedArray(), cursor % 8 == 0) on a new BitString,
\* as deserializeCellData calls it on the bits of a new Cell
TopUp ==
  /\ pcb = "write"
  /\ bs.cursor <= bs.length
  /\ LET g == getTopUppedArray(bs)
         r == setTopUppedArray(BitString(CellBits), g.array, bs.cursor % 8 = 0)
     IN  tu' = IF g.err
               THEN [done |-> TRUE, err |-> TRUE, out |-> BitString(0)]
               ELSE [done |-> TRUE, err |-> r.err, out |-> r.bs]
  /\ pcb' = "topupped"
  /\ UNCHANGED <<bs, wr, sl, rd, hx>>
  /\ UNCHANGED cellVars

\* bs.toHex()
ToHex ==
  /\ pcb = "write"
  /\ LET r == toHex(bs)
     IN  hx' = [done |-> TRUE, err |-> r.err, hex |-> r.hex]
  /\ pcb' = "hex"
  /\ UNCHANGED <<bs, wr, sl, rd, tu>>
  /\ UNCHANGED cellVars

\* the Slice of the k-th child of a Cell: the children differ by their bits
ChildSlice(k) == Slice(<<k>>, CellBits, <<>>)

\* Cell.beginParse of a Cell whose bits are bs; a Cell that was not written
\* may have up to 4 children
BeginParse ==
  /\ pcb = "write"
  /\ bs.length = CellBits
  /\ \E m \in 0..4 :
       /\ m > 0 => (wr.count = 0 /\ bs.cursor = 0)
       /\ sl' = Slice(bs.array, bs.length, [k \in 1..m |-> ChildSlice(k)])
  /\ pcb' = "read"
  /\ UNCHANGED <<bs, wr, rd, tu, hx>>
  /\ UNCHANGED cellVars

Loaded(op, w, r) ==
  /\ sl' = r.sl
  /\ rd' = [op |-> op, w |-> w, pos |-> sl.readCursor, err |-> r.err,
            ret |-> IF r.err THEN 0 ELSE r.ret]
  /\ UNCHANGED <<bs, wr, tu, hx, pcb>>
  /\ UNCHANGED cellVars

\* loadBits up to the place where the last write began
Skip ==
  /\ pcb = "read" /\ sl.readCursor = 0 /\ wr.pos > 0 /\ rd.op = "none"
  /\ LET r == loadBits(sl, wr.pos)
     IN  Loaded("loadBits", wr.pos, [r EXCEPT !.ret = 0])

\* the loads are made at the place of the last write
CanRead == pcb = "read" /\ sl.readCursor = wr.pos /\ rd.op \in {"none", "loadBits"}

LoadBit == CanRead /\
  LET r == loadBit(sl)
  IN  Loaded("loadBit", 1, [r EXCEPT !.ret = IF r.err THEN 0 ELSE IF @ THEN 1 ELSE 0])

LoadUint == CanRead /\ \E w \in Widths : Loaded("loadUint", w, loadUint(sl, w))

LoadInt == CanRead /\ \E w \in Widths : Loaded("loadInt", w, loadInt(sl, w))

LoadAddress == CanRead /\ Loaded("loadAddress", 0, loadAddress(sl))

\* loadRef is called again and again on a Slice whose bits were not read
LoadRef ==
  /\ pcb = "read" /\ sl.readCursor = 0 /\ rd.op \in {"none", "loadRef"} /\ ~rd.err
  /\ Loaded("loadRef", 0, loadRef(sl))

NextBits ==
  \/ WriteBitArray
  \/ WriteBytes
  \/ WriteBit
  \/ WriteUint
  \/ WriteInt
  \/ WriteGrams
  \/ WriteAddress
  \/ TopUp
  \/ ToHex
  \/ BeginParse
  \/ Skip
  \/ LoadBit
  \/ LoadUint
  \/ LoadInt
  \/ LoadAddress
  \/ LoadRef

SpecBits == InitBits /\ [][NextBits]_vars

---------------------------------------------------------------------------
(* Spec: Cells are constructed, written and linked, toBoc is called on     *)
(* heap[1], a bit of the bytes may be flipped, and fromBoc reads the bytes    *)

BitsIdle ==
  /\ bs = BitString(0) /\ wr = NoWrite /\ sl = Slice(<<>>, 0, <<>>)
  /\ rd = NoRead /\ tu = NoTopUp /\ hx = NoHex /\ pcb = "cells"

Init ==
  /\ BitsIdle
  /\ heap = <<Cell>>
  /\ cnt = NoCount
  /\ boc = NoBoc
  /\ out = NoOut
  /\ inp = NoInput
  /\ pc = "build"

\* new Cell()
NewCell ==
  /\ pc = "build"
  /\ Len(heap) < MaxCells
  /\ heap' = Append(heap, Cell)
  /\ UNCHANGED <<cnt, boc, out, inp, pc>>
  /\ UNCHANGED bitVars

CanWriteData(c) == pc = "build" /\ cnt.data < MaxData /\ heap[c].bits.cursor = 0

\* heap[c].bits.writeBit(v)
CellWriteBit == \E c \in 1..Len(heap) : \E v \in BOOLEAN :
  /\ CanWriteData(c)
  /\ heap' = [heap EXCEPT ![c].bits = writeBit(@, v).bs]
  /\ cnt' = [cnt EXCEPT !.data = @ + 1]
  /\ UNCHANGED <<boc, out, inp, pc>>
  /\ UNCHANGED bitVars

\* heap[c].bits.writeBytes(ui8)
CellWriteBytes == \E c \in 1..Len(heap) : \E ui8 \in ByteArrays :
  /\ CanWriteData(c)
  /\ heap' = [heap EXCEPT ![c].bits = writeBytes(@, ui8).bs]
  /\ cnt' = [cnt EXCEPT !.data = @ + 1]
  /\ UNCHANGED <<boc, out, inp, pc>>
  /\ UNCHANGED bitVars

\* heap[p].refs.push(heap[c]); the Cell pushed is a later one of the heap, which
\* keeps the graph acyclic
PushRef == \E p \in 1..Len(heap) : \E c \in (p + 1)..Len(heap) :
  /\ pc = "build"
  /\ cnt.pushes < MaxPushes
  /\ heap' = [heap EXCEPT ![p].refs = Append(@, c)]
  /\ cnt' = [cnt EXCEPT !.pushes = @ + 1]
  /\ UNCHANGED <<boc, out, inp, pc>>
  /\ UNCHANGED bitVars

\* heap[p].writeCell(heap[c]), c = p or a later Cell of the heap, which keeps
\* the graph acyclic
WriteCell == \E p \in 1..Len(heap) : \E c \in p..Len(heap) :
  /\ pc = "build"
  /\ cnt.writeCells < MaxWriteCells
  /\ heap' = [heap EXCEPT ![p] = writeCell(@, heap[c]).cell]
  /\ cnt' = [cnt EXCEPT !.writeCells = @ + 1]
  /\ UNCHANGED <<boc, out, inp, pc>>
  /\ UNCHANGED bitVars

\* boc = heap[1].toBoc(has_idx, hash_crc32)
ToBoc == \E has_idx \in BOOLEAN : \E hash_crc32 \in BOOLEAN :
  /\ pc = "build"
  /\ boc' = Boc(toBoc(heap, 1, has_idx, hash_crc32, FALSE, 0), has_idx, hash_crc32)
  /\ pc' = "boc"
  /\ UNCHANGED <<heap, cnt, out, inp>>
  /\ UNCHANGED bitVars

\* the bytes with bit i % 8 of byte i \div 8 flipped
Flip(bytes, i) ==
  LET k == (i \div 8) + 1
      m == Pow2(i % 8)
  IN  [bytes EXCEPT ![k] = IF (@ \div m) % 2 = 1 THEN @ - m ELSE @ + m]

\* one bit of a BoC that has a CRC is flipped on its way to fromBoc
FlipBit == \E i \in 0..(8 * Len(boc.bytes) - 1) :
  /\ pc = "boc"
  /\ ~boc.err /\ boc.hash_crc32 /\ ~boc.flipped
  /\ Len(boc.bytes) <= MaxFlipBytes
  /\ boc' = [boc EXCEPT !.bytes = Flip(@, i), !.flipped = TRUE]
  /\ UNCHANGED <<heap, cnt, out, inp, pc>>
  /\ UNCHANGED bitVars

\* out = Cell.fromBoc(boc)
FromBoc ==
  /\ pc = "boc"
  /\ ~boc.err
  /\ out' = fromBoc(boc.bytes)
  /\ pc' = "done"
  /\ UNCHANGED <<heap, cnt, boc, inp>>
  /\ UNCHANGED bitVars

Next ==
  \/ NewCell
  \/ CellWriteBit
  \/ CellWriteBytes
  \/ PushRef
  \/ ToBoc
  \/ FlipBit
  \/ FromBoc

Spec == Init /\ [][Next]_vars

\* SpecCells: the Cells are constructed, written, linked and written into
\* one another
NextCells ==
  \/ NewCell
  \/ CellWriteBit
  \/ CellWriteBytes
  \/ PushRef
  \/ WriteCell

SpecCells == Init /\ [][NextCells]_vars

---------------------------------------------------------------------------
(* SpecDec: fromBoc is called on bytes that follow the layout of a BoC,    *)
(* made of a prefix, a size of the numbers, the flags and a list of cells  *)
(* that refer to one another by any number; the root index is 0 or the    *)
(* number of cells                                                         *)

\* number of cells in the bytes given to fromBoc
MaxGivenCells == 2

\* n in size bytes, the highest byte first
RECURSIVE NumberBytes(_, _)
NumberBytes(n, size) ==
  IF size = 0 THEN <<>> ELSE Append(NumberBytes(n \div 256, size - 1), n % 256)

\* a cell of the bytes: no data, and the reference indices refs
GivenCell(refs, size) ==
  <<Len(refs), 0>> \o
  (IF Len(refs) = 0 THEN <<>>
   ELSE IF Len(refs) = 1 THEN NumberBytes(refs[1], size)
   ELSE NumberBytes(refs[1], size) \o NumberBytes(refs[2], size))

RECURSIVE GivenCells(_, _, _)
GivenCells(cells, k, size) ==
  IF k > Len(cells) THEN <<>> ELSE GivenCell(cells[k], size) \o GivenCells(cells, k + 1, size)

\* the offsets of the index, each in offs bytes
RECURSIVE GivenIndex(_, _, _, _, _)
GivenIndex(cells, k, size, offset, offs) ==
  IF k > Len(cells) THEN <<>>
  ELSE NumberBytes(offset, offs)
       \o GivenIndex(cells, k + 1, size, offset + 2 + size * Len(cells[k]), offs)

\* the root list: each index in size bytes
RECURSIVE GivenRootList(_, _, _)
GivenRootList(roots, k, size) ==
  IF k > Len(roots) THEN <<>>
  ELSE NumberBytes(roots[k], size) \o GivenRootList(roots, k + 1, size)

\* the byte after the prefix: the flags and the size of the numbers after
\* B5EE9C72, the size of the numbers after the two other prefixes
GivenFlagsByte(g) ==
  IF g.magic = reachBocMagicPrefix
  THEN (IF g.has_idx THEN 128 ELSE 0) + (IF g.hash_crc32 THEN 64 ELSE 0) + g.size_bytes
  ELSE g.size_bytes

GivenBody(g, data) ==
  g.magic \o <<GivenFlagsByte(g), g.off_bytes>>
  \o NumberBytes(Len(g.cells), g.size_bytes) \o NumberBytes(Len(g.roots), g.size_bytes)
  \o NumberBytes(0, g.size_bytes) \o NumberBytes(Len(data), g.off_bytes)
  \o GivenRootList(g.roots, 1, g.size_bytes)
  \o (IF g.has_idx THEN GivenIndex(g.cells, 1, g.size_bytes, 0, g.off_bytes) ELSE <<>>)
  \o data

GivenSealed(g, body) == IF g.hash_crc32 THEN body \o crc32c(body) ELSE body

\* the bytes of the whole BoC, every declared field in its place
GivenWhole(g) == GivenSealed(g, GivenBody(g, GivenCells(g.cells, 1, g.size_bytes)))

\* the bytes given to fromBoc: the whole BoC without its last g.cut bytes
GivenBytes(g) == Slice0(GivenWhole(g), 0, Len(GivenWhole(g)) - g.cut)

\* a prefix that is none of the three: B5EE9C73
OtherPrefix == [reachBocMagicPrefix EXCEPT ![4] = @ + 1]

\* the reference lists of a cell: none, one or two numbers of 0..MaxGivenCells
GivenRefs ==
  {<<>>} \cup {<<r>> : r \in 0..MaxGivenCells}
         \cup {<<r, r>> : r \in 1..MaxGivenCells}

GivenGraphs ==
  UNION {[1..n -> GivenRefs] : n \in 1..MaxGivenCells}

\* the prefixes with the flags they go with: any flags after B5EE9C72, an
\* index and no CRC after 68FF65F3, an index and a CRC after ACC3A728
GivenHeads ==
  {[magic |-> reachBocMagicPrefix, has_idx |-> i, hash_crc32 |-> c] : i \in BOOLEAN, c \in BOOLEAN}
  \cup {[magic |-> leanBocMagicPrefix, has_idx |-> TRUE, hash_crc32 |-> FALSE],
        [magic |-> leanBocMagicPrefixCRC, has_idx |-> TRUE, hash_crc32 |-> TRUE],
        [magic |-> OtherPrefix, has_idx |-> TRUE, hash_crc32 |-> FALSE],
        [magic |-> OtherPrefix, has_idx |-> TRUE, hash_crc32 |-> TRUE]}

Given(head, size, offs, cells, roots) ==
  [magic |-> head.magic, size_bytes |-> size, off_bytes |-> offs, has_idx |-> head.has_idx,
   hash_crc32 |-> head.hash_crc32, cells |-> cells, roots |-> roots, cut |-> 0]

InitDec ==
  /\ BitsIdle
  /\ heap = <<>>
  /\ cnt = NoCount
  /\ \E head \in GivenHeads : \E size \in 1..2 : \E cells \in GivenGraphs :
       \E root \in {0, Len(cells)} :
         inp = Given(head, size, 1, cells, <<root>>)
  /\ boc = Boc([bytes |-> GivenBytes(inp), err |-> FALSE], inp.has_idx, inp.hash_crc32)
  /\ out = NoOut
  /\ pc = "boc"

NextDec == FromBoc

SpecDec == InitDec /\ [][NextDec]_vars

---------------------------------------------------------------------------
(* SpecWide: toBoc is called on the root of a tree of n cells that all     *)
(* differ, n small or about the largest number that one byte holds         *)

\* the largest number of cells of the small trees
MaxSmallCells == 40

\* the largest number of s_bytes * 8 = 8 bits
MaxByte == 255

WideSizes == (1..MaxSmallCells) \cup {MaxByte, MaxByte + 1, MaxByte + 2}

\* the number of children of cell i in a tree of n cells where the children
\* of cell i are the cells 4 * i - 2 .. 4 * i + 1
WideChildren(i, n) ==
  IF 4 * i + 1 <= n THEN 4 ELSE IF 4 * i - 2 > n THEN 0 ELSE n - (4 * i - 2) + 1

\* cell i holds the number i in 16 bits
WideCell(i, n) ==
  [Cell EXCEPT !.bits = writeUint(Cell.bits, i, 16).bs,
               !.refs = [k \in 1..WideChildren(i, n) |-> 4 * i - 3 + k]]

InitWide ==
  /\ BitsIdle
  /\ \E n \in WideSizes : heap = [i \in 1..n |-> WideCell(i, n)]
  /\ cnt = NoCount
  /\ boc = NoBoc
  /\ out = NoOut
  /\ inp = NoInput
  /\ pc = "build"

\* boc = heap[1].toBoc(has_idx, false): the index is asked for on the small
\* trees
ToBocNoCrc == \E has_idx \in BOOLEAN :
  /\ pc = "build"
  /\ has_idx => Len(heap) <= MaxSmallCells
  /\ boc' = Boc(toBoc(heap, 1, has_idx, FALSE, FALSE, 0), has_idx, FALSE)
  /\ pc' = "boc"
  /\ UNCHANGED <<heap, cnt, out, inp>>
  /\ UNCHANGED bitVars

NextWide == ToBocNoCrc

SpecWide == InitWide /\ [][NextWide]_vars

---------------------------------------------------------------------------
(* SpecCut: fromBoc is called on a BoC that lost its last bytes.  The BoC  *)
(* has one of the three prefixes, numbers of 1 or 2 bytes, offsets of 1 or *)
(* MaxOffsetBytes bytes, up to two cells and no root or the root 0.        *)

\* the larger of the two sizes of tot_cells_size and of the index offsets
MaxOffsetBytes == 3

CutHeads == {head \in GivenHeads : head.magic # OtherPrefix}

CutGraphs == {<<>>, <<<<>>>>, <<<<1>>, <<>>>>}

InitCut ==
  /\ BitsIdle
  /\ heap = <<>>
  /\ cnt = NoCount
  /\ \E head \in CutHeads : \E size \in 1..2 : \E offs \in {1, MaxOffsetBytes} :
       \E cells \in CutGraphs : \E roots \in {<<>>, <<0>>} :
         \E cut \in 1..Len(GivenWhole(Given(head, size, offs, cells, roots))) :
           inp = [Given(head, size, offs, cells, roots) EXCEPT !.cut = cut]
  /\ boc = Boc([bytes |-> GivenBytes(inp), err |-> FALSE], inp.has_idx, inp.hash_crc32)
  /\ out = NoOut
  /\ pc = "boc"

NextCut == FromBoc

SpecCut == InitCut /\ [][NextCut]_vars

---------------------------------------------------------------------------
(* Contract: the cells of a message.  Here a cell is a record whose refs   *)
(* are the child cells themselves, null is <<>> and a value v that may be  *)
(* null is <<v>>.                                                          *)

\* new Address(anyForm) of an Address: the workchain, the hash part and the
\* flag isBounceable of anyForm
newAddress(anyForm) ==
  [isNull |-> FALSE, wc |-> anyForm.wc, hashPart |-> anyForm.hashPart,
   isBounceable |-> anyForm.isBounceable]

\* a write of createInternalMessageHeader on message.bits: <<the method, its
\* arguments>>; the numbers are BN
writeField(b, w) ==
  CASE w[1] = "writeBit" -> writeBit(b, w[2])
    [] w[1] = "writeAddress" -> writeAddress(b, w[2])
    [] w[1] = "writeGrams" -> writeGrams(b, w[2])
    [] w[1] = "writeUint" -> writeUintBN(b, w[2], w[3])

\* the writes ws[k..] in their order, until one throws
RECURSIVE writeFields(_, _, _)
writeFields(r, ws, k) ==
  IF k > Len(ws) \/ r.err THEN r ELSE writeFields(writeField(r.bs, ws[k]), ws, k + 1)

\* createInternalMessageHeader with the source and the destination exchanged
createInternalMessageHeader_destFirst(dest, gramValue, ihrDisabled, bounce, bounced, src, currencyCollection, ihrFees, fwdFees, createdLt, createdAt) ==
  LET r == writeFields(Ok(Cell.bits),
             << <<"writeBit", FALSE>>, <<"writeBit", ihrDisabled>>,
                <<"writeBit", IF Len(bounce) > 0 THEN bounce[1]
                              ELSE newAddress(dest).isBounceable>>,
                <<"writeBit", bounced>>,
                <<"writeAddress", newAddress(dest)>>,
                <<"writeAddress", IF src.isNull THEN NullAddress ELSE newAddress(src)>>,
                <<"writeGrams", gramValue>>, <<"writeBit", FALSE>>,
                <<"writeGrams", ihrFees>>, <<"writeGrams", fwdFees>>,
                <<"writeUint", createdLt, 64>>, <<"writeUint", createdAt, 32>> >>, 1)
  IN  [cell |-> [Cell EXCEPT !.bits = r.bs], err |-> r.err \/ currencyCollection]

\* bounce is <<>> (null) or <<a boolean>>, src is NullAddress (null) or an
\* Address, currencyCollection is TRUE iff it is truthy
createInternalMessageHeader(dest, gramValue, ihrDisabled, bounce, bounced, src, currencyCollection, ihrFees, fwdFees, createdLt, createdAt) ==
  LET first == writeFields(Ok(Cell.bits),
                 << <<"writeBit", FALSE>>, <<"writeBit", ihrDisabled>>,
                    <<"writeBit", IF Len(bounce) > 0 THEN bounce[1]
                                  ELSE newAddress(dest).isBounceable>>,
                    <<"writeBit", bounced>>,
                    <<"writeAddress", IF src.isNull THEN NullAddress ELSE newAddress(src)>>,
                    <<"writeAddress", newAddress(dest)>>,
                    <<"writeGrams", gramValue>> >>, 1)
      rest == writeFields(first,
                << <<"writeBit", currencyCollection>>,
                   <<"writeGrams", ihrFees>>, <<"writeGrams", fwdFees>>,
                   <<"writeUint", createdLt, 64>>, <<"writeUint", createdAt, 32>> >>, 1)
  IN  IF first.err \/ currencyCollection
      THEN [cell |-> [Cell EXCEPT !.bits = first.bs], err |-> TRUE]
      ELSE [cell |-> [Cell EXCEPT !.bits = rest.bs], err |-> rest.err]

\* cell.bits.writeBit of every flag, then cell.refs.push of every pushed cell
writeFlags(cell, flags, pushed) ==
  LET r == writeBitArray(cell.bits, flags)
  IN  [cell |-> IF r.err THEN [cell EXCEPT !.bits = r.bs]
                ELSE [cell EXCEPT !.bits = r.bs, !.refs = @ \o pushed],
       err |-> r.err]

\* the branch if (body) of createCommonMsgInfo, body[1] being the body
writeBody(commonMsgInfo, body) ==
  IF /\ getFreeBits(commonMsgInfo.bits) >= body[1].bits.cursor
     /\ Len(commonMsgInfo.refs) + Len(body[1].refs) <= 4
  THEN LET r == writeFlags(commonMsgInfo, <<FALSE>>, <<>>)
       IN  IF r.err THEN r ELSE writeCell(r.cell, body[1])
  ELSE writeFlags(commonMsgInfo, <<TRUE>>, body)

\* stateInit and body are <<>> (null) or <<a cell>>
createCommonMsgInfo(header, stateInit, body) ==
  LET r1 == writeCell(Cell, header)
      r2 == IF r1.err THEN r1
            ELSE IF Len(stateInit) > 0 THEN writeFlags(r1.cell, <<TRUE, TRUE>>, stateInit)
            ELSE writeFlags(r1.cell, <<FALSE>>, <<>>)
  IN  IF r2.err THEN r2
      ELSE IF Len(body) > 0 THEN writeBody(r2.cell, body)
      ELSE writeFlags(r2.cell, <<FALSE>>, <<>>)

---------------------------------------------------------------------------
(* SpecMsg: createInternalMessageHeader is called on a destination, a      *)
(* source and numbers, or createCommonMsgInfo on a header, a stateInit and *)
(* a body that each hold at most CellBits bits and at most 4 refs          *)

\* the destinations: the workchain 0, bounceable or not, and the workchain -1
Destinations ==
  {[isNull |-> FALSE, wc |-> d[1], hashPart |-> [i \in 1..32 |-> d[2]],
    isBounceable |-> d[3]] :
     d \in {<<0, 0, TRUE>>, <<0, 0, FALSE>>, <<-1, 255, TRUE>>}}

Sources == {NullAddress} \cup {d \in Destinations : d.wc = -1}

\* the amounts 0 and 0xABC
Amounts == {<<0>>, <<10, 11, 12>>}

\* the numbers of data bits of the cells given to createCommonMsgInfo
GivenHeaderBits == {0, 1, CellBits - 2, CellBits - 1, CellBits}
GivenBodyBits == {0, 1, 2, CellBits}

\* a cell without refs that holds the number k in 8 bits
LeafCell(k) == [Cell EXCEPT !.bits = writeUint(Cell.bits, k, 8).bs]

\* a cell of n data bits, all of them 1, and m refs
PartCell(n, m) ==
  [Cell EXCEPT !.bits = writeBitArray(Cell.bits, [i \in 1..n |-> TRUE]).bs,
               !.refs = [k \in 1..m |-> LeafCell(k)]]

NoMessage == [cell |-> Cell, err |-> FALSE]

InitMsg ==
  /\ BitsIdle
  /\ heap = <<>>
  /\ cnt = NoCount
  /\ boc = NoBoc
  /\ out = NoMessage
  /\ \/ /\ pc = "header"
        /\ \E dest \in Destinations, gramValue \in Amounts, ihrDisabled \in BOOLEAN,
              bounce \in {<<>>, <<TRUE>>, <<FALSE>>}, bounced \in BOOLEAN,
              src \in Sources, currencyCollection \in BOOLEAN,
              ihrFees \in {<<0>>, <<1>>}, createdLt \in {<<0>>, <<1>>},
              createdAt \in {<<0>>, <<1>>} :
             inp = [dest |-> dest, gramValue |-> gramValue, ihrDisabled |-> ihrDisabled,
                    bounce |-> bounce, bounced |-> bounced, src |-> src,
                    currencyCollection |-> currencyCollection, ihrFees |-> ihrFees,
                    fwdFees |-> <<0>>, createdLt |-> createdLt, createdAt |-> createdAt]
     \/ /\ pc = "parts"
        /\ \E hb \in GivenHeaderBits, hr \in 0..4, si \in BOOLEAN, b \in BOOLEAN,
              bb \in GivenBodyBits, br \in 0..4 :
             /\ ~b => (bb = 0 /\ br = 0)
             /\ inp = [header |-> PartCell(hb, hr),
                       stateInit |-> IF si THEN <<PartCell(1, 1)>> ELSE <<>>,
                       body |-> IF b THEN <<PartCell(bb, br)>> ELSE <<>>]

\* out = Contract.createInternalMessageHeader(dest, gramValue, ...)
CreateInternalMessageHeader ==
  /\ pc = "header"
  /\ out' = createInternalMessageHeader(inp.dest, inp.gramValue, inp.ihrDisabled,
              inp.bounce, inp.bounced, inp.src, inp.currencyCollection, inp.ihrFees,
              inp.fwdFees, inp.createdLt, inp.createdAt)
  /\ pc' = "message"
  /\ UNCHANGED <<heap, cnt, boc, inp>>
  /\ UNCHANGED bitVars

\* out = Contract.createCommonMsgInfo(header, stateInit, body)
CreateCommonMsgInfo ==
  /\ pc = "parts"
  /\ out' = createCommonMsgInfo(inp.header, inp.stateInit, inp.body)
  /\ pc' = "info"
  /\ UNCHANGED <<heap, cnt, boc, inp>>
  /\ UNCHANGED bitVars

NextMsg ==
  \/ CreateInternalMessageHeader
  \/ CreateCommonMsgInfo

SpecMsg == InitMsg /\ [][NextMsg]_vars

---------------------------------------------------------------------------
(* Claims on BitString and Slice, checked under SpecBits *)

\* C6 (as claimed): for every BitString B with cursor k, 0 <= k <= capacity,
\* setTopUppedArray(B.getTopUppedArray(), k % 8 == 0) returns with cursor k
\* and with the bits of B at every position < k.
C6_TopUppedInverse ==
  pcb = "topupped" =>
    /\ ~tu.err
    /\ tu.out.cursor = bs.cursor
    /\ \A i \in 0..(bs.cursor - 1) : get(tu.out, i) = get(bs, i)

InIntRange(n, w) == -(Pow2(w - 1)) <= n /\ n <= Pow2(w - 1) - 1

\* C7: for every width w >= 2 and every n with -2^(w-1) <= n <= 2^(w-1) - 1,
\* writeInt(n, w) into bits that have room for w more bits returns having
\* written exactly w bits, and loadInt(w) at that place of a slice of the
\* cell returns n having read exactly w bits.
C7_SignedRoundTrip ==
  (/\ wr.op = "writeInt" /\ wr.w >= 2 /\ InIntRange(wr.n, wr.w)
   /\ wr.pos + wr.w <= bs.length)
  => /\ ~wr.err
     /\ bs.cursor = wr.pos + wr.w
     /\ (rd.op = "loadInt" /\ rd.w = wr.w /\ rd.pos = wr.pos)
        => (~rd.err /\ rd.ret = wr.n /\ sl.readCursor = rd.pos + rd.w)

C7_Witness ==
  /\ wr.op = "writeInt" /\ wr.w >= 2 /\ wr.n < 0 /\ InIntRange(wr.n, wr.w)
  /\ wr.pos > 0
  /\ rd.op = "loadInt" /\ rd.w = wr.w /\ rd.pos = wr.pos
  /\ ~rd.err /\ rd.ret = wr.n

\* C8: for every width w >= 1 and every n with 0 <= n <= 2^w - 1,
\* writeUint(n, w) into bits that have room for w more bits writes the w
\* binary digits of n, most significant first and zeros in front, and
\* loadUint(w) at that place of a slice of the cell returns n.
C8_UnsignedRoundTrip ==
  (/\ wr.op = "writeUint" /\ wr.w >= 1 /\ 0 <= wr.n /\ wr.n <= Pow2(wr.w) - 1
   /\ wr.pos + wr.w <= bs.length)
  => /\ ~wr.err
     /\ bs.cursor = wr.pos + wr.w
     /\ \A i \in 0..(wr.w - 1) :
          get(bs, wr.pos + i) = ((wr.n \div Pow2(wr.w - 1 - i)) % 2 = 1)
     /\ (rd.op = "loadUint" /\ rd.w = wr.w /\ rd.pos = wr.pos)
        => (~rd.err /\ rd.ret = wr.n /\ sl.readCursor = rd.pos + rd.w)

C8_Witness ==
  /\ wr.op = "writeUint" /\ wr.w >= 2 /\ wr.n = Pow2(wr.w) - 2
  /\ wr.pos > 0
  /\ rd.op = "loadUint" /\ rd.w = wr.w /\ rd.pos = wr.pos
  /\ ~rd.err /\ rd.ret = wr.n

\* C9 (as claimed): writeBit on a BitString whose cursor is >= its capacity
\* fails; a BitString of capacity 1023 does not accept a 1024th bit.
C9_WriteBitFailsAtCapacity ==
  (wr.op = "writeBit" /\ wr.pos >= bs.length) => wr.err

\* C11 (as claimed): writeUint(n, w) of an n >= 0 into bits that have room:
\* with w == 0 it returns without a write when n == 0 and fails when n != 0;
\* with w >= 1 it fails exactly when n needs more than w bits.
C11_WriteUintWidth ==
  (wr.op = "writeUint" /\ wr.n >= 0 /\ wr.pos + wr.w <= bs.length) =>
    /\ (wr.w = 0 /\ wr.n = 0) => (~wr.err /\ bs.cursor = wr.pos)
    /\ (wr.w = 0 /\ wr.n # 0) => wr.err
    /\ wr.w >= 1 => (wr.err <=> wr.n >= Pow2(wr.w))

\* C12 (as claimed): writeInt(n, w) fails whenever n does not fit the width:
\* with w == 1 for every n other than -1 and 0, with w > 1 for every n outside
\* [-2^(w-1), 2^(w-1) - 1].
C12_WriteIntOutOfRange ==
  (/\ wr.op = "writeInt" /\ wr.w >= 1 /\ ~InIntRange(wr.n, wr.w)
   /\ wr.pos + wr.w <= bs.length)
  => wr.err

UpperHexDigits ==
  <<"0", "1", "2", "3", "4", "5", "6", "7", "8", "9", "A", "B", "C", "D", "E", "F">>

\* bit i of the k bits of b followed by a 1 bit and zero bits
CompletedBit(b, i) ==
  IF i < b.cursor THEN (IF get(b, i) THEN 1 ELSE 0)
  ELSE IF i = b.cursor THEN 1 ELSE 0

\* the upper-case hex of the k bits of b, completed to a multiple of 4 bits and
\* followed by "_" when k is not a multiple of 4
FiftHex(b) ==
  [j \in 1..((b.cursor + 3) \div 4) |->
     UpperHexDigits[8 * CompletedBit(b, 4 * j - 4) + 4 * CompletedBit(b, 4 * j - 3)
                    + 2 * CompletedBit(b, 4 * j - 2) + CompletedBit(b, 4 * j - 1) + 1]]
  \o (IF b.cursor % 4 = 0 THEN <<>> ELSE <<"_">>)

\* C13 (as claimed): toHex of a BitString with k written bits, k <= capacity,
\* returns the upper-case hex of the k bits when k is a multiple of 4, and
\* otherwise the upper-case hex of the bits followed by a 1 bit and zero bits
\* up to the next multiple of 4, with "_" appended.
C13_ToHex ==
  (hx.done /\ bs.cursor <= bs.length) => (~hx.err /\ hx.hex = FiftHex(bs))

\* the amount of the last writeGrams and the minimum number of its bytes
GramsAmount == GramAmounts[wr.n]
GramsBytes == (Len(GramsAmount) + 1) \div 2

\* bit i of the amount as an unsigned big-endian integer of GramsBytes * 8 bits
GramsBit(i) ==
  LET padded == [j \in 1..(2 * GramsBytes - Len(GramsAmount)) |-> 0] \o GramsAmount
  IN  (padded[(i \div 4) + 1] \div Pow2(3 - (i % 4))) % 2 = 1

\* C14: writeGrams(a) into bits that have room appends four 0 bits and nothing
\* else when a == 0; for a > 0 it appends L, the minimum number of bytes of a,
\* as a 4-bit unsigned integer and then a as an unsigned big-endian integer of
\* L * 8 bits; it fails when L does not fit in 4 bits.
C14_WriteGrams ==
  wr.op = "writeGrams" =>
    /\ (GramsAmount = <<0>> /\ wr.pos + 4 <= bs.length) =>
         /\ ~wr.err
         /\ bs.cursor = wr.pos + 4
         /\ \A i \in 0..3 : ~get(bs, wr.pos + i)
    /\ (GramsAmount # <<0>> /\ GramsBytes <= 15
        /\ wr.pos + 4 + 8 * GramsBytes <= bs.length) =>
         /\ ~wr.err
         /\ bs.cursor = wr.pos + 4 + 8 * GramsBytes
         /\ \A i \in 0..3 : get(bs, wr.pos + i) = ((GramsBytes \div Pow2(3 - i)) % 2 = 1)
         /\ \A i \in 0..(8 * GramsBytes - 1) : get(bs, wr.pos + 4 + i) = GramsBit(i)
    /\ GramsBytes > 15 => wr.err

\* the amount 256 was written after other bits: 0010, then 00000001 00000000
C14_Witness ==
  /\ wr.op = "writeGrams" /\ GramsAmount = <<1, 0, 0>> /\ wr.pos > 0 /\ ~wr.err
  /\ bs.cursor = wr.pos + 20
  /\ get(bs, wr.pos + 2) /\ get(bs, wr.pos + 11)

\* bit i of the slice, counted from the place where the last load began
TagBit(i) == sliceGet(sl, rd.pos + i)

\* the 8 bits from bit 3 on as a signed integer
TagWorkchain ==
  (IF TagBit(3) THEN -128 ELSE 0)
  + 64 * (IF TagBit(4) THEN 1 ELSE 0) + 32 * (IF TagBit(5) THEN 1 ELSE 0)
  + 16 * (IF TagBit(6) THEN 1 ELSE 0) + 8 * (IF TagBit(7) THEN 1 ELSE 0)
  + 4 * (IF TagBit(8) THEN 1 ELSE 0) + 2 * (IF TagBit(9) THEN 1 ELSE 0)
  + (IF TagBit(10) THEN 1 ELSE 0)

\* the 256 bits from bit 11 on as 64 hex digits
TagHash ==
  [j \in 1..64 |->
     HexDigits[8 * (IF TagBit(4 * j + 7) THEN 1 ELSE 0) + 4 * (IF TagBit(4 * j + 8) THEN 1 ELSE 0)
               + 2 * (IF TagBit(4 * j + 9) THEN 1 ELSE 0) + (IF TagBit(4 * j + 10) THEN 1 ELSE 0)
               + 1]]

\* C15: loadAddress returns the null address after exactly 2 bits when the tag
\* is 00; it reads the tag 10 with the anycast bit 0 as a signed 8-bit
\* workchain and a hash of 256 bits, 267 bits in all; it fails for the tags 01
\* and 11 and for the tag 10 with the anycast bit set.
C15_LoadAddress ==
  (rd.op = "loadAddress" /\ rd.pos + 267 <= sl.length) =>
    /\ (~TagBit(0) /\ ~TagBit(1)) =>
         (~rd.err /\ rd.ret.isNull /\ sl.readCursor = rd.pos + 2)
    /\ (TagBit(0) /\ ~TagBit(1) /\ ~TagBit(2)) =>
         /\ ~rd.err /\ ~rd.ret.isNull
         /\ sl.readCursor = rd.pos + 267
         /\ rd.ret.wc = TagWorkchain
         /\ rd.ret.hex = TagHash
    /\ TagBit(1) => rd.err
    /\ (TagBit(0) /\ TagBit(2)) => rd.err

\* the address that writeAddress wrote after other bits is read back
C15_Witness ==
  /\ rd.op = "loadAddress" /\ ~rd.err /\ rd.pos > 0
  /\ wr.op = "writeAddress" /\ wr.pos = rd.pos /\ wr.n = 3
  /\ rd.ret.wc = -1
  /\ rd.ret.hex = bytesToHex(Addresses[3].hashPart)
  /\ sl.readCursor = rd.pos + 267

\* a load of bits has read, or tried to read, a bit at a position >= length
ReadPastLength ==
  /\ rd.op \in {"loadBit", "loadBits", "loadUint", "loadInt"}
  /\ rd.w >= 1
  /\ rd.pos + rd.w > sl.length

\* C19 (as claimed): on a Slice readCursor and refCursor never decrease under
\* the load operations, and every read of a bit at a position >= the length
\* of the slice fails.
C19_SliceCursors ==
  /\ [][pcb = "read" =>
          (sl'.readCursor >= sl.readCursor /\ sl'.refCursor >= sl.refCursor)]_vars
  /\ [](ReadPastLength => rd.err)

\* C24: successive loadRef calls on a Slice with m <= 4 child slices return
\* the children in ref order, each once, always the next unread child; a
\* loadRef when no unread child remains returns no child, and a loadRef once
\* refCursor has reached 4 fails.
C24_LoadRefOrder ==
  [][rd'.op = "loadRef" =>
       IF sl.refCursor >= 4
       THEN rd'.err /\ sl' = sl
       ELSE /\ ~rd'.err
            /\ sl'.refCursor = sl.refCursor + 1
            /\ sl.refCursor < Len(sl.refs) => rd'.ret = <<ChildSlice(sl.refCursor + 1)>>
            /\ sl.refCursor >= Len(sl.refs) => rd'.ret = <<>>]_<<sl, rd.op, rd.err>>

\* the second of three children was returned by the second loadRef
C24_Witness ==
  /\ rd.op = "loadRef" /\ ~rd.err
  /\ Len(sl.refs) = 3 /\ sl.refCursor = 2
  /\ rd.ret = <<ChildSlice(2)>>

\* C26 (as claimed): if writeUint, writeInt, writeBytes or writeGrams fails,
\* for a value out of range for the width or for want of free bits, the
\* cursor and the bits of the BitString are the same as before the call: no
\* part of the value is written.
C26_FailedWriteWritesNothing ==
  [][(wr'.err /\ wr'.op \in {"writeUint", "writeInt", "writeBytes", "writeGrams"}) =>
       (bs'.cursor = bs.cursor /\ bs'.array = bs.array)]_vars

\* C27 (as claimed): the Slice returned by Cell.beginParse has a length equal
\* to the number of bits written to the cell (bits.cursor), so a load of more
\* bits than the cell holds fails instead of returning padding bits.
C27_SliceLengthIsCursor ==
  pcb = "read" =>
    /\ sl.length = bs.cursor
    /\ (rd.op \in {"loadBit", "loadUint", "loadInt", "loadBits"} /\ rd.pos + rd.w > bs.cursor)
         => rd.err

---------------------------------------------------------------------------
(* Claims on the bag of cells, checked under Spec *)

\* the cell graph of the root was built, serialized and read back unchanged
RoundTripDone == pc = "done" /\ ~boc.flipped

\* C1 (as claimed): for any acyclic Cell graph C built by bit writes and ref
\* pushes, C.toBoc() returns and Cell.fromBoc of it returns one root whose
\* hash, which covers the bits, their length and the hashes of the children
\* in their order at every node, is the hash of C.
C1_RoundTrip ==
  /\ pc = "boc" => ~boc.err
  /\ RoundTripDone =>
       /\ ~out.err
       /\ Len(out.roots) = 1
       /\ hashReturns(out.cells, out.roots[1], Len(out.cells))
       /\ hash(out.cells, out.roots[1]) = hash(heap, 1)

\* the reference indices written in the body of `cell`: its last bytes
WrittenRefs(h, cell, cellsIndex) ==
  LET body == serializeForBoc(h, cell, cellsIndex)
  IN  [k \in 1..Len(h[cell].refs) |-> body[Len(body) - Len(h[cell].refs) + k]]

ForwardIn(h, st) ==
  \A i \in 1..Len(st.T) :
    LET cell == st.T[i][2]
    IN  \A k \in 1..Len(h[cell].refs) :
          /\ st.I[uint8ArrayToText(hash(h, h[cell].refs[k]))] > i - 1
          /\ st.T[st.I[uint8ArrayToText(hash(h, h[cell].refs[k]))] + 1][1]
               = hash(h, h[cell].refs[k])
          /\ WrittenRefs(h, cell, st.I)[k] > i - 1

\* C2: after treeWalk with its relocations, every child of the cell at index i
\* of the topological order has an index strictly greater than i, and every
\* reference index that toBoc writes in the body of cell i is > i.
C2_ForwardReferences ==
  (pc = "boc" /\ ~boc.flipped) => ForwardIn(heap, cellTreeWalk(heap, 1))

\* the root refers to cell 3 and then to cell 2, which refers to cell 3: cell 3
\* is met before its parent cell 2 and moved to the end
C2_Witness ==
  /\ pc = "boc" /\ ~boc.flipped /\ ~boc.err
  /\ Len(heap) = 3
  /\ heap[1].refs = <<3, 2>> /\ heap[2].refs = <<3>>
  /\ cellTreeWalk(heap, 1).T[2][2] = 2
  /\ cellTreeWalk(heap, 1).T[3][2] = 3

\* C4: flipping any single bit of a BoC that toBoc produced with
\* hash_crc32 = true makes fromBoc fail.
C4_CrcDetectsBitFlip ==
  (pc = "done" /\ boc.flipped) => out.err

\* a bit of the BoC of a root with a child was flipped and fromBoc failed
C4_Witness ==
  /\ pc = "done" /\ boc.flipped /\ boc.hash_crc32 /\ out.err
  /\ Len(heap[1].refs) = 1

\* the cells met from `cell` on, depth first, a cell before its refs and the
\* refs in their order: a cell met twice is listed twice
RECURSIVE PreOrder(_, _)
RECURSIVE PreOrderRefs(_, _, _)
PreOrderRefs(h, refs, k) ==
  IF k > Len(refs) THEN <<>> ELSE PreOrder(h, refs[k]) \o PreOrderRefs(h, refs, k + 1)

PreOrder(h, cell) == <<cell>> \o PreOrderRefs(h, h[cell].refs, 1)

\* the hashes of the cells of the graph of `cell`
HashesOf(h, cell) ==
  {hash(h, PreOrder(h, cell)[i]) : i \in 1..Len(PreOrder(h, cell))}

\* T holds every hash of the graph and no hash twice, at the index that I says
OncePerHash(h, st) ==
  /\ {st.T[i][1] : i \in 1..Len(st.T)} = HashesOf(h, 1)
  /\ Len(st.T) = Cardinality(HashesOf(h, 1))
  /\ \A i \in 1..Len(st.T) :
       /\ st.T[i][1] = hash(h, st.T[i][2])
       /\ st.I[uint8ArrayToText(st.T[i][1])] = i - 1

\* C16: after treeWalk on any DAG the order T holds each distinct cell hash
\* exactly once, and after fromBoc of the BoC every reference is the Cell of
\* cells_array at the index written for it, so that references that carried the
\* same index are one same Cell.
C16_OncePerHash ==
  /\ (pc \in {"boc", "done"} /\ ~boc.flipped) => OncePerHash(heap, cellTreeWalk(heap, 1))
  /\ (RoundTripDone /\ ~out.err) =>
       /\ Len(out.cells) = Cardinality(HashesOf(heap, 1))
       /\ \A i \in 1..Len(out.cells) :
            LET cell == cellTreeWalk(heap, 1).T[i][2]
            IN  /\ Len(out.cells[i].refs) = Len(heap[cell].refs)
                /\ \A k \in 1..Len(heap[cell].refs) :
                     out.cells[i].refs[k]
                       = WrittenRefs(heap, cell, cellTreeWalk(heap, 1).I)[k] + 1

\* a root that refers twice to one child was written as 2 cells and read back
\* with both references on the second cell
C16_Witness ==
  /\ RoundTripDone /\ ~out.err
  /\ Len(heap[1].refs) = 2
  /\ hash(heap, heap[1].refs[1]) = hash(heap, heap[1].refs[2])
  /\ Len(cellTreeWalk(heap, 1).T) = 2
  /\ Len(out.cells) = 2
  /\ out.cells[1].refs = <<2, 2>>

\* no cell of the graph of the root is met twice and no two have one hash
IsTree(h) == Cardinality(HashesOf(h, 1)) = Len(PreOrder(h, 1))

Returned == pc \in {"boc", "done"} /\ ~boc.err /\ ~boc.flipped

\* the place in the bytes, counted from 1, of the body of the cell at index 0:
\* after the prefix, the flags byte, offset_bytes, the three counters,
\* tot_cells_size, the root index and the index if there is one
FirstBody(bytes, has_idx) ==
  11 + bytes[6] + (IF has_idx THEN bytes[6] * bytes[7] ELSE 0)

\* C22: for every DAG on which toBoc returns, the output begins with the
\* bytes B5 EE 9C 72, cells_num in the header is the number of distinct cells
\* of T, roots_num is 1, absent_num is 0, the root index is 0 and the cell
\* serialized at index 0 is the cell toBoc was called on; for a fresh empty
\* cell cells_num is 1 and the root index byte is 00.
C22_HeaderAndRoot ==
  Returned =>
    LET st == cellTreeWalk(heap, 1)
        body == serializeForBoc(heap, 1, st.I)
    IN  /\ SubSeq(boc.bytes, 1, 4) = <<181, 238, 156, 114>>
        /\ boc.bytes[7] = Cardinality(HashesOf(heap, 1))
        /\ boc.bytes[7] = Len(st.T)
        /\ boc.bytes[8] = 1
        /\ boc.bytes[9] = 0
        /\ boc.bytes[10 + boc.bytes[6]] = 0
        /\ st.T[1][2] = 1
        /\ SubSeq(boc.bytes, FirstBody(boc.bytes, boc.has_idx),
                  FirstBody(boc.bytes, boc.has_idx) + Len(body) - 1) = body
        /\ (heap[1].bits.cursor = 0 /\ heap[1].refs = <<>>) =>
             (boc.bytes[7] = 1 /\ boc.bytes[11] = 0)

\* toBoc with the index and the CRC returned on a root whose first child is
\* also the child of its second child: that child was moved to the end of T
C22_Witness ==
  /\ Returned /\ boc.has_idx /\ boc.hash_crc32
  /\ heap[1].refs = <<3, 2>> /\ heap[2].refs = <<3>> /\ heap[3].refs = <<>>
  /\ hash(heap, 2) # hash(heap, 3)
  /\ boc.bytes[7] = 3
  /\ [i \in 1..3 |-> cellTreeWalk(heap, 1).T[i][2]] = <<1, 2, 3>>

\* I is the position map of T: one key for each entry of T, the key of the
\* entry at place p being mapped to p, so that the positions are 0..|T|-1
\* without a gap and without a duplicate
PositionMap(T, I) ==
  /\ DOMAIN I = {uint8ArrayToText(T[p][1]) : p \in 1..Len(T)}
  /\ Cardinality(DOMAIN I) = Len(T)
  /\ \A p \in 1..Len(T) : I[uint8ArrayToText(T[p][1])] = p - 1

\* C25: throughout treeWalk, after every append of a cell met for the first
\* time and after every completed call of moveToTheEnd, indexHashmap is the
\* position map of topologicalOrderArray.
C25_PositionMap ==
  pc = "boc" =>
    \A k \in 1..Len(cellTreeWalk(heap, 1).log) :
      PositionMap(cellTreeWalk(heap, 1).log[k].T, cellTreeWalk(heap, 1).log[k].I)

\* the walk of three cells ended with more than three entries in its log:
\* moveToTheEnd was called and came to its end
C25_Witness ==
  /\ pc = "boc"
  /\ Len(cellTreeWalk(heap, 1).T) = 3
  /\ Len(cellTreeWalk(heap, 1).log) > 3
  /\ [i \in 1..3 |-> cellTreeWalk(heap, 1).T[i][2]] = <<1, 2, 3>>
  /\ heap[1].refs[1] = 3

---------------------------------------------------------------------------
(* Claims on the cells, checked under SpecCells *)

\* C10 (as claimed): after any sequence of bit writes and writeCell, each
\* Cell has at most 4 references and at most 1023 bits of data, and its
\* descriptor bytes d1 and d2 encode the ref count and the bit length.
C10_CellLimits ==
  \A c \in 1..Len(heap) :
    /\ Len(heap[c].refs) <= 4
    /\ heap[c].bits.cursor <= CellBits
    /\ getRefsDescriptor(heap, c)[1] % 8 = Len(heap[c].refs)
    /\ getBitsDescriptor(heap, c)[1]
         = CeilDiv8(heap[c].bits.cursor) + (heap[c].bits.cursor \div 8)

---------------------------------------------------------------------------
(* Claims on fromBoc, checked under SpecDec *)

\* the references of the given cells all point forward and to a given cell
GivenForward(g) ==
  \A i \in 1..Len(g.cells) : \A k \in 1..Len(g.cells[i]) :
    g.cells[i][k] > i - 1 /\ g.cells[i][k] < Len(g.cells)

\* some given cell at index i holds a reference index r <= i
GivenBackward(g) ==
  \E i \in 1..Len(g.cells) : \E k \in 1..Len(g.cells[i]) : g.cells[i][k] <= i - 1

ThreePrefixes == {reachBocMagicPrefix, leanBocMagicPrefix, leanBocMagicPrefixCRC}

\* C3 (as claimed): any input in which some cell at index i holds a reference
\* index r <= i, r == i included, makes fromBoc fail.
C3_BackwardReferenceFails ==
  (pc = "done" /\ GivenBackward(inp)) => out.err

\* C5: fromBoc accepts the prefixes B5EE9C72, 68FF65F3 and ACC3A728 and fails
\* on any other; after 68FF65F3 it parses with has_idx = 1 and no CRC, after
\* ACC3A728 with has_idx = 1 and the CRC, the next byte being size_bytes; a
\* BoC with the prefix 68FF65F3, size_bytes = 1, one cell and no reference
\* decodes to one cell whose bits.cursor is 0.
C5_MagicPrefixes ==
  pc = "done" =>
    /\ inp.magic \notin ThreePrefixes => out.err
    /\ inp.magic \in ThreePrefixes =>
         /\ ~parseBocHeader(boc.bytes).err
         /\ parseBocHeader(boc.bytes).size_bytes = inp.size_bytes
         /\ GivenForward(inp) => (~out.err /\ Len(out.cells) = Len(inp.cells))
    /\ inp.magic = leanBocMagicPrefix =>
         /\ parseBocHeader(boc.bytes).has_idx = 1
         /\ parseBocHeader(boc.bytes).hash_crc32 = 0
    /\ inp.magic = leanBocMagicPrefixCRC =>
         /\ parseBocHeader(boc.bytes).has_idx = 1
         /\ parseBocHeader(boc.bytes).hash_crc32 = 1
    /\ inp.magic = reachBocMagicPrefix =>
         /\ (parseBocHeader(boc.bytes).has_idx # 0) = inp.has_idx
         /\ (parseBocHeader(boc.bytes).hash_crc32 # 0) = inp.hash_crc32
    /\ (inp.magic = leanBocMagicPrefix /\ inp.size_bytes = 1 /\ inp.cells = <<<<>>>>) =>
         /\ ~out.err
         /\ Len(out.cells) = 1
         /\ inp.roots = <<0>> => out.roots = <<1>>
         /\ out.cells[1].bits.cursor = 0
         /\ out.cells[1].refs = <<>>

\* the BoC with the prefix 68FF65F3, size_bytes = 1, one cell and no reference
\* was decoded
C5_Witness ==
  /\ pc = "done"
  /\ inp.magic = leanBocMagicPrefix /\ inp.size_bytes = 1 /\ inp.cells = <<<<>>>>
  /\ inp.roots = <<0>>
  /\ boc.bytes = leanBocMagicPrefix \o <<1, 1, 1, 1, 0, 2, 0, 0, 0, 0>>
  /\ ~out.err /\ out.cells[1].bits.cursor = 0

\* the cells of the decoded heap that the references lead to from the cells
\* of set, in n steps at most; the undefined reference leads nowhere
RECURSIVE ReachedFrom(_, _, _)
ReachedFrom(cells, set, n) ==
  IF n = 0 THEN set
  ELSE ReachedFrom(cells,
                   set \cup {r \in 1..Len(cells) :
                               \E c \in set : \E k \in 1..Len(cells[c].refs) :
                                 cells[c].refs[k] = r},
                   n - 1)

\* some root index or some reference index of the given bytes is cells_num
\* or more
GivenBeyond(g) ==
  \/ \E k \in 1..Len(g.roots) : g.roots[k] >= Len(g.cells)
  \/ \E i \in 1..Len(g.cells) : \E k \in 1..Len(g.cells[i]) : g.cells[i][k] >= Len(g.cells)

\* C20 (as claimed): whenever fromBoc returns, every returned root and every
\* entry of the refs of every cell reachable from a root is one of the
\* cells_num cells parsed from the input, never a missing value; an input
\* with a reference index or a root index >= cells_num fails.
C20_ResolvedCells ==
  /\ (pc = "done" /\ ~out.err) =>
        /\ Len(out.cells) = Len(inp.cells)
        /\ \A k \in 1..Len(out.roots) : out.roots[k] \in 1..Len(out.cells)
        /\ \A c \in ReachedFrom(out.cells, {r \in 1..Len(out.cells) :
                                               \E k \in 1..Len(out.roots) : out.roots[k] = r},
                                 Len(out.cells)) :
             \A k \in 1..Len(out.cells[c].refs) : out.cells[c].refs[k] \in 1..Len(out.cells)
  /\ (pc = "done" /\ GivenBeyond(inp)) => out.err

\* the cells that the refs of cell c refer to
Children(cells, c) ==
  {r \in 1..Len(cells) : \E k \in 1..Len(cells[c].refs) : cells[c].refs[k] = r}

\* C28 (as claimed): every cell graph returned by a successful fromBoc is
\* acyclic: no cell is reachable from itself through refs.
C28_Acyclic ==
  (pc = "done" /\ ~out.err) =>
    \A c \in 1..Len(out.cells) :
      c \notin ReachedFrom(out.cells, Children(out.cells, c), Len(out.cells))

---------------------------------------------------------------------------
(* Claims on fromBoc, checked under SpecCut *)

\* C18 (as claimed): fromBoc fails on every input that has too few bytes for
\* a field its header declares (the counters, tot_cells_size, the root list,
\* the index, the cell data, a cell's descriptors, data or reference
\* indices, the CRC trailer): a BoC without its last bytes is never decoded.
C18_TruncatedFails ==
  (pc = "done" /\ inp.cut > 0) => out.err

---------------------------------------------------------------------------
(* Claims on toBoc, checked under SpecWide *)

\* the body of the cell at place i of the order st, and its reference indices
\* if each of them is one byte
BodyAt(st, i) == serializeForBoc(heap, st.T[i][2], st.I)

OneByteRefs(st, i) ==
  [k \in 1..Len(heap[st.T[i][2]].refs) |->
     st.I[uint8ArrayToText(hash(heap, heap[st.T[i][2]].refs[k]))] % 256]

\* the body of every cell of st is its data with descriptors followed by one
\* byte for each reference that holds the whole index of the child
WholeIndices(st) ==
  \A i \in 1..Len(st.T) :
    /\ BodyAt(st, i) = getDataWithDescriptors(heap, st.T[i][2]) \o OneByteRefs(st, i)
    /\ \A k \in 1..Len(OneByteRefs(st, i)) :
         OneByteRefs(st, i)[k]
           = st.I[uint8ArrayToText(hash(heap, heap[st.T[i][2]].refs[k]))]

\* the body of every cell of st is its data with descriptors followed by
\* s_bytes bytes for each reference
ReferenceWidth(st, s_bytes) ==
  \A i \in 1..Len(st.T) :
    Len(BodyAt(st, i)) = Len(getDataWithDescriptors(heap, st.T[i][2]))
                         + s_bytes * Len(heap[st.T[i][2]].refs)

\* C23 (as claimed): in the body that serializeForBoc makes of a cell, every
\* index of a child in T is written as exactly s_bytes bytes, s_bytes being
\* the value that toBoc writes in the header, always 1: the size field of the
\* header and the width of the references agree for every graph.
C23_ReferenceWidth ==
  pc = "boc" =>
    /\ ~boc.err => boc.bytes[5] % 8 = 1
    /\ ReferenceWidth(cellTreeWalk(heap, 1), 1)

\* C30: toBoc returns bytes only when the number of distinct cells of T fits
\* the size field of 1 byte: for a DAG of more than 255 distinct cells toBoc
\* fails, and it never returns a BoC whose cells_num or whose reference
\* indices are cut short.
C30_TooManyCellsFail ==
  pc = "boc" =>
    /\ Len(cellTreeWalk(heap, 1).T) > MaxByte => boc.err
    /\ ~boc.err =>
         /\ boc.bytes[7] = Len(cellTreeWalk(heap, 1).T)
         /\ WholeIndices(cellTreeWalk(heap, 1))

\* toBoc failed on a tree of 256 cells that all differ
C30_Witness ==
  /\ pc = "boc"
  /\ Len(heap) = MaxByte + 1
  /\ Len(cellTreeWalk(heap, 1).T) = MaxByte + 1
  /\ boc.err

---------------------------------------------------------------------------
(* Claims on the cells of a message, checked under SpecMsg *)

\* the first n bits of b, written 0 and 1
FirstBits(b, n) == [i \in 1..n |-> IF get(b, i - 1) THEN 1 ELSE 0]

Zeros(n) == [i \in 1..n |-> 0]

\* createInternalMessageHeader has returned for ihrDisabled = true, bounce =
\* false, src = null, the destination (0, 32 bytes 0), gramValue = 0,
\* createdLt = 0 and createdAt = 0, bounced and currencyCollection being what
\* they are by default, false and null
PlainHeader ==
  /\ pc = "message"
  /\ inp.ihrDisabled /\ inp.bounce = <<FALSE>> /\ ~inp.bounced
  /\ inp.src.isNull
  /\ inp.dest.wc = 0 /\ inp.dest.hashPart = Zeros(32)
  /\ inp.gramValue = <<0>> /\ ~inp.currencyCollection
  /\ inp.createdLt = <<0>> /\ inp.createdAt = <<0>>

BodyFlag == inp.header.bits.cursor + (IF Len(inp.stateInit) > 0 THEN 2 ELSE 1)

\* the number of refs of commonMsgInfo when the body is looked at
RefsBeforeBody == Len(inp.header.refs) + Len(inp.stateInit)

\* C29 (as claimed): for every header, optional stateInit and optional body of
\* at most 1023 bits and at most 4 refs each, createCommonMsgInfo fails or
\* returns a cell with at most 1023 data bits and at most 4 refs; the body is
\* inlined only when the flag bit plus all the bits of the body fit and the
\* refs fit, otherwise it is attached as a reference.
C29_CommonMsgInfoFits ==
  (pc = "info" /\ ~out.err) =>
    /\ out.cell.bits.cursor <= CellBits
    /\ Len(out.cell.refs) <= 4
    /\ Len(inp.body) > 0 =>
         IF get(out.cell.bits, BodyFlag)
         THEN out.cell.refs = [k \in 1..RefsBeforeBody |-> out.cell.refs[k]] \o inp.body
         ELSE /\ BodyFlag + 1 + inp.body[1].bits.cursor <= CellBits
              /\ RefsBeforeBody + Len(inp.body[1].refs) <= 4

====
